---- MODULE Spec2Model ----
(***************************************************************************)
(* Picxel Studio: the quantization-and-partition pipeline of the server    *)
(* (routes: findClosestBrickColor, POST /api/projects/:id/process) and the *)
(* pixel editor of the client (PixelEditor and ExpandedBrickEditor with    *)
(* their batched undo/redo stacks).                                        *)
(*                                                                         *)
(* Colours are the hex strings of the source, compared as strings.  Lab    *)
(* coordinates are fixed-point: rgbToLab's doubles rounded to 1/100.       *)
(***************************************************************************)
EXTENDS Integers, Sequences, FiniteSets, TLC

VARIABLES
  \* ---- server: one project and the last run of the process endpoint
  project,          \* the stored project row, or NoProject
  info,             \* sharp's raw buffer: [width, height, data]
  pixelatedData,    \* the quantized raster, rows of hex strings
  gridDims,         \* [gridCols, gridRows] resolved by the layout switch
  \* ---- PixelEditor (client/src/components/pixel-editor.tsx)
  boards,           \* editedResult.boards: the live, shared board array
  selectedColor,
  zoomLevel,        \* <<num, den>>
  panOffset,        \* [x, y]
  lastPan,          \* [x, y]
  isDragging,       \* panning flag
  isPainting,
  paintBatch,
  undoStack,
  redoStack,
  brightness,       \* the four enhancement sliders, -100..100
  contrast,
  saturation,
  sharpness,
  \* ---- ExpandedBrickEditor and the closures its drag listener holds
  showExpandedEditor,
  expandedSelectedColor,
  expIsDragging,    \* ExpandedBrickEditor.isDragging
  expPaintBatch,    \* ExpandedBrickEditor.paintBatch
  listener,         \* what the document mousemove listener closed over
  \* ---- history of the session, kept for the statements below
  hist,
  \* ---- server: the image on disk and the requests being handled
  imageFile,        \* the uploaded image file exists
  inflight,         \* per requester, its run of the process endpoint
  request,          \* the session's process request is on its way
  response,         \* the answer to it on its way back, or NoResponse
  otherRequests,    \* number of requests made by other sessions
  \* ---- Home, ProcessingView and ResultsView of the session
  currentStep,
  processing,
  results,          \* Home's results, or NoResult for null
  projectId,        \* 0 for null
  mutation,         \* status of ProcessingView's processImageMutation
  timer,            \* the result setTimeout will hand to onComplete, or NoResult
  isEditing,
  projectFile,      \* what handleSave wrote last, or NoFile
  config,           \* Home's boardCount, boardLayout, boardRows, boardCols
  \* ---- history of the writes to the project, kept for the statements below
  log

(***************************************************************************)
(* Bounds of the model.                                                    *)
(***************************************************************************)
\* side of a board in cells (32 in the source)
boardSize == 2
\* largest boardCount an upload request carries
MaxBoardCount == 4
\* rasters tried per grid: coefficients of the sample pattern
MaxRasterCoef == 1
\* palette entries offered in the editor's colour picker
NumEditorColors == 2
\* PixelChanges recorded in one editing session
MaxChanges == 2
\* pan steps and zoom steps taken in one editing session
MaxPanSteps == 1
MaxZoomSteps == 1
\* requests other sessions make to the project
MaxOtherRequests == 2

(***************************************************************************)
(* Palette and colour matcher (server routes).                             *)
(***************************************************************************)

\* the 39-colour palette, in the order of the source
BRICK_COLORS ==
  << [name |-> "Cactus", hex |-> "#000000"],
     [name |-> "Basketball Court", hex |-> "#3C3C3C"],
     [name |-> "Kite", hex |-> "#5F5F5F"],
     [name |-> "Controller", hex |-> "#A0A0A0"],
     [name |-> "Soccer Ball", hex |-> "#F5F5F5"],
     [name |-> "Hamburger", hex |-> "#5A1E0A"],
     [name |-> "Basketball", hex |-> "#780000"],
     [name |-> "Watermelon", hex |-> "#AA0000"],
     [name |-> "Football", hex |-> "#E65064"],
     [name |-> "Pokercard", hex |-> "#FFC8E6"],
     [name |-> "Finishing Flag", hex |-> "#C855A0"],
     [name |-> "Rocket", hex |-> "#9B0069"],
     [name |-> "Hotdog", hex |-> "#4B5528"],
     [name |-> "Cocktail Glass", hex |-> "#005032"],
     [name |-> "Clapperboard", hex |-> "#00785A"],
     [name |-> "Game Controller", hex |-> "#00A528"],
     [name |-> "French Fries", hex |-> "#A0C814"],
     [name |-> "Popsicle", hex |-> "#AAFFAA"],
     [name |-> "Bread", hex |-> "#825032"],
     [name |-> "Ghost", hex |-> "#AF9655"],
     [name |-> "Fried Egg", hex |-> "#787355"],
     [name |-> "Cupcake", hex |-> "#648264"],
     [name |-> "Biscuit", hex |-> "#C7925B"],
     [name |-> "Sunglasses", hex |-> "#FFA546"],
     [name |-> "Carrot", hex |-> "#F0876E"],
     [name |-> "Pizza", hex |-> "#FAAA82"],
     [name |-> "Guitar", hex |-> "#FFFC30"],
     [name |-> "Crayon", hex |-> "#F0DC96"],
     [name |-> "Lemon", hex |-> "#FFFF96"],
     [name |-> "Backboard", hex |-> "#FFDCC8"],
     [name |-> "Hourglass", hex |-> "#5A4196"],
     [name |-> "Tv", hex |-> "#2D1473"],
     [name |-> "Table Tennis", hex |-> "#505F78"],
     [name |-> "Usb", hex |-> "#00468C"],
     [name |-> "Mouse", hex |-> "#006EB4"],
     [name |-> "Balloon", hex |-> "#5FA5F5"],
     [name |-> "Diskette", hex |-> "#46D2E6"],
     [name |-> "Heart", hex |-> "#B9FFEB"],
     [name |-> "Crosswords", hex |-> "#D88571"] >>

\* byte triples that hex strings are parsed into (the palette's) and the
\* raster samples handed to the matcher
BrickRgbValues ==
  << <<0, 0, 0>>,
     <<60, 60, 60>>,
     <<95, 95, 95>>,
     <<160, 160, 160>>,
     <<245, 245, 245>>,
     <<90, 30, 10>>,
     <<120, 0, 0>>,
     <<170, 0, 0>>,
     <<230, 80, 100>>,
     <<255, 200, 230>>,
     <<200, 85, 160>>,
     <<155, 0, 105>>,
     <<75, 85, 40>>,
     <<0, 80, 50>>,
     <<0, 120, 90>>,
     <<0, 165, 40>>,
     <<160, 200, 20>>,
     <<170, 255, 170>>,
     <<130, 80, 50>>,
     <<175, 150, 85>>,
     <<120, 115, 85>>,
     <<100, 130, 100>>,
     <<199, 146, 91>>,
     <<255, 165, 70>>,
     <<240, 135, 110>>,
     <<250, 170, 130>>,
     <<255, 252, 48>>,
     <<240, 220, 150>>,
     <<255, 255, 150>>,
     <<255, 220, 200>>,
     <<90, 65, 150>>,
     <<45, 20, 115>>,
     <<80, 95, 120>>,
     <<0, 70, 140>>,
     <<0, 110, 180>>,
     <<95, 165, 245>>,
     <<70, 210, 230>>,
     <<185, 255, 235>>,
     <<216, 133, 113>> >>

SampleRgb ==
  << <<10, 10, 10>>, <<27, 36, 6>>, <<255, 255, 255>>, <<200, 30, 40>>, <<0, 110, 180>>, <<128, 128, 128>> >>

HexDigitsUpper == <<"0","1","2","3","4","5","6","7","8","9","A","B","C","D","E","F">>

\* two hex digits of a byte, upper case as the palette writes them
HexByteUpper(n) == HexDigitsUpper[(n \div 16) + 1] \o HexDigitsUpper[(n % 16) + 1]

HexUpper(rgb) == "#" \o HexByteUpper(rgb[1]) \o HexByteUpper(rgb[2]) \o HexByteUpper(rgb[3])

RgbValues == {BrickRgbValues[i] : i \in 1..Len(BrickRgbValues)}

\* hexToRgb: the byte triple whose two-digit groups spell the string, and
\* [0,0,0] when the string is no six-digit hex colour
hexToRgb(hex) ==
  IF \E t \in RgbValues : HexUpper(t) = hex
  THEN CHOOSE t \in RgbValues : HexUpper(t) = hex
  ELSE <<0, 0, 0>>

\* rgbToLab in units of 1/100: gamma expansion, XYZ (D65), L*a*b*
LabTable ==
  (<<0, 0, 0>> :> <<0, 0, 0>>) @@
  (<<60, 60, 60>> :> <<2532, 0, 0>>) @@
  (<<95, 95, 95>> :> <<4032, 0, -1>>) @@
  (<<160, 160, 160>> :> <<6587, 0, -1>>) @@
  (<<245, 245, 245>> :> <<9654, 1, -1>>) @@
  (<<90, 30, 10>> :> <<2053, 2651, 2624>>) @@
  (<<120, 0, 0>> :> <<2365, 4588, 3559>>) @@
  (<<170, 0, 0>> :> <<3510, 5912, 4941>>) @@
  (<<230, 80, 100>> :> <<5556, 5924, 2103>>) @@
  (<<255, 200, 230>> :> <<8615, 2415, -733>>) @@
  (<<200, 85, 160>> :> <<5329, 5421, -1833>>) @@
  (<<155, 0, 105>> :> <<3396, 6112, -1495>>) @@
  (<<75, 85, 40>> :> <<3429, -1193, 2475>>) @@
  (<<0, 80, 50>> :> <<2933, -2993, 1174>>) @@
  (<<0, 120, 90>> :> <<4448, -3654, 850>>) @@
  (<<0, 165, 40>> :> <<5903, -6038, 5119>>) @@
  (<<160, 200, 20>> :> <<7535, -3441, 7294>>) @@
  (<<170, 255, 170>> :> <<9300, -4188, 3271>>) @@
  (<<130, 80, 50>> :> <<3909, 1781, 2626>>) @@
  (<<175, 150, 85>> :> <<6300, 78, 3747>>) @@
  (<<120, 115, 85>> :> <<4815, -323, 1734>>) @@
  (<<100, 130, 100>> :> <<5138, -1702, 1283>>) @@
  (<<199, 146, 91>> :> <<6453, 1372, 3677>>) @@
  (<<255, 165, 70>> :> <<7521, 2552, 6074>>) @@
  (<<240, 135, 110>> :> <<6726, 3766, 3103>>) @@
  (<<250, 170, 130>> :> <<7649, 2502, 3250>>) @@
  (<<255, 252, 48>> :> <<9645, -1943, 8759>>) @@
  (<<240, 220, 150>> :> <<8793, -290, 3690>>) @@
  (<<255, 255, 150>> :> <<9803, -1453, 5005>>) @@
  (<<255, 220, 200>> :> <<9014, 911, 1430>>) @@
  (<<90, 65, 150>> :> <<3431, 3126, -4314>>) @@
  (<<45, 20, 115>> :> <<1697, 3779, -4963>>) @@
  (<<80, 95, 120>> :> <<3999, 76, -1595>>) @@
  (<<0, 70, 140>> :> <<3009, 1014, -4406>>) @@
  (<<0, 110, 180>> :> <<4487, 52, -4430>>) @@
  (<<95, 165, 245>> :> <<6647, 173, -4654>>) @@
  (<<70, 210, 230>> :> <<7794, -3067, -2074>>) @@
  (<<185, 255, 235>> :> <<9509, -2567, 258>>) @@
  (<<216, 133, 113>> :> <<6381, 2971, 2426>>) @@
  (<<10, 10, 10>> :> <<274, 0, 0>>) @@
  (<<27, 36, 6>> :> <<1266, -989, 1604>>) @@
  (<<255, 255, 255>> :> <<10000, 1, -1>>) @@
  (<<200, 30, 40>> :> <<4330, 6332, 3998>>) @@
  (<<128, 128, 128>> :> <<5359, 0, -1>>)


rgbToLab(rgb) == LabTable[rgb]

\* colorDistance: Euclidean distance in Lab; the square is kept, the square
\* root of the source is monotone and only compared
colorDistance(color1, color2) ==
  LET lab1 == rgbToLab(color1)
      lab2 == rgbToLab(color2)
      deltaL == lab1[1] - lab2[1]
      deltaA == lab1[2] - lab2[2]
      deltaB == lab1[3] - lab2[3]
  IN  deltaL * deltaL + deltaA * deltaA + deltaB * deltaB

\* minDistance starts at Infinity
Infinity == 2147483647

BrickRgb == [i \in 1..Len(BRICK_COLORS) |-> hexToRgb(BRICK_COLORS[i].hex)]

\* distance to the i-th palette entry
BrickDistance(rgb, i) == colorDistance(rgb, BrickRgb[i])

\* a scan that lets a later entry at the same distance take over
IsCloserOrEqual(distance, minDistance) == distance <= minDistance

\* the comparison of the scan: if (distance < minDistance)
IsCloser(distance, minDistance) == distance < minDistance

RECURSIVE ScanBrickColors(_, _, _, _)
\* the for loop of findClosestBrickColor from entry i on; closest is an index
ScanBrickColors(rgb, i, closest, minDistance) ==
  IF i > Len(BRICK_COLORS) THEN closest
  ELSE LET distance == BrickDistance(rgb, i)
       IN  IF IsCloser(distance, minDistance)
           THEN ScanBrickColors(rgb, i + 1, i, distance)
           ELSE ScanBrickColors(rgb, i + 1, closest, minDistance)

\* the palette entry the scan ends on
findClosestBrickColor(rgb) ==
  BRICK_COLORS[ScanBrickColors(rgb, 1, 1, Infinity)]

\* findClosestBrickColor on each raster sample
BrickColorOf ==
  [rgb \in {SampleRgb[s] : s \in 1..Len(SampleRgb)} |-> findClosestBrickColor(rgb)]

(***************************************************************************)
(* Upload and process endpoints (server routes).                           *)
(***************************************************************************)
NoProject == [status |-> "none"]

NoResult == [totalTiles |-> -1]

\* boardLayout strings an upload request may carry: the presets, layouts the
\* configuration steppers build, and the dropdown's placeholder
Layouts == {"1x1", "2x2", "3x2", "3x3", "4x2", "2x1", "custom"}

BoardCounts == 1..MaxBoardCount

\* Math.ceil(Math.sqrt(n))
CeilSqrt(n) == CHOOSE k \in 0..n : k * k >= n /\ (k = 0 \/ (k - 1) * (k - 1) < n)

\* the switch on project.boardLayout of the process endpoint
ResolveGrid(boardLayout, boardCount) ==
  CASE boardLayout = "2x2" -> [gridCols |-> 2, gridRows |-> 2]
    [] boardLayout = "3x2" -> [gridCols |-> 3, gridRows |-> 2]
    [] boardLayout = "3x3" -> [gridCols |-> 3, gridRows |-> 3]
    [] boardLayout = "4x2" -> [gridCols |-> 4, gridRows |-> 2]
    [] OTHER -> [gridCols |-> CeilSqrt(boardCount), gridRows |-> CeilSqrt(boardCount)]

\* the switch on boardLayout of the image editor's grid overlay
drawGridOverlay(boardLayout, boardCount) ==
  CASE boardLayout = "1x1" -> [gridCols |-> 1, gridRows |-> 1]
    [] boardLayout = "2x2" -> [gridCols |-> 2, gridRows |-> 2]
    [] boardLayout = "3x2" -> [gridCols |-> 3, gridRows |-> 2]
    [] boardLayout = "3x3" -> [gridCols |-> 3, gridRows |-> 3]
    [] boardLayout = "4x2" -> [gridCols |-> 4, gridRows |-> 2]
    [] OTHER -> [gridCols |-> CeilSqrt(boardCount), gridRows |-> CeilSqrt(boardCount)]

\* raw pixels sharp hands back: sample (a*x + b*y + c) of SampleRgb
RasterData(width, height, a, b, c) ==
  [y \in 0..(height - 1) |->
    [x \in 0..(width - 1) |-> SampleRgb[((a * x + b * y + c) % Len(SampleRgb)) + 1]]]

\* number of rows of a raster, and of columns of its first row
Rows(raster) == Cardinality(DOMAIN raster)

Cols(raster) == Cardinality(DOMAIN raster[0])

\* the key of the usage map: `${brickColor.name}|${brickColor.hex}`
UsageKey(brickColor) == brickColor.name \o "|" \o brickColor.hex

\* key.split("|"): the name and the hex the key was built from
SplitKey(key) ==
  LET e == CHOOSE e \in {BRICK_COLORS[i] : i \in 1..Len(BRICK_COLORS)} : UsageKey(e) = key
  IN  <<e.name, e.hex>>

\* a usage map that restarts a key's count at every set
\* a map that puts a new key in front of the earlier ones
MapSetFront(colorUsage, key) ==
  IF \E i \in 1..Len(colorUsage) : colorUsage[i].key = key
  THEN [i \in 1..Len(colorUsage) |->
         IF colorUsage[i].key = key
         THEN [key |-> key, count |-> colorUsage[i].count + 1]
         ELSE colorUsage[i]]
  ELSE <<[key |-> key, count |-> 1]>> \o colorUsage

MapSetForgetful(colorUsage, key) ==
  IF \E i \in 1..Len(colorUsage) : colorUsage[i].key = key
  THEN [i \in 1..Len(colorUsage) |->
         IF colorUsage[i].key = key THEN [key |-> key, count |-> 1] ELSE colorUsage[i]]
  ELSE Append(colorUsage, [key |-> key, count |-> 1])

\* colorUsage.set(key, (colorUsage.get(key) || 0) + 1) on an insertion-ordered Map
MapSet(colorUsage, key) ==
  IF \E i \in 1..Len(colorUsage) : colorUsage[i].key = key
  THEN [i \in 1..Len(colorUsage) |->
         IF colorUsage[i].key = key
         THEN [key |-> key, count |-> colorUsage[i].count + 1]
         ELSE colorUsage[i]]
  ELSE Append(colorUsage, [key |-> key, count |-> 1])

\* the hex written at (x, y) by the quantization loop
QuantizedPixel(data, x, y) == BrickColorOf[data[y][x]].hex

\* pixelatedData after the quantization loop
Quantize(data, width, height) ==
  [y \in 0..(height - 1) |-> [x \in 0..(width - 1) |-> QuantizedPixel(data, x, y)]]

RECURSIVE CountUsage(_, _, _, _, _)
\* colorUsage after the loop has visited pixels k, k+1, ... in row-major order
CountUsage(data, width, height, k, colorUsage) ==
  IF k >= width * height THEN colorUsage
  ELSE LET brickColor == BrickColorOf[data[k \div width][k % width]]
           counted == MapSet(colorUsage, UsageKey(brickColor))
       IN  \* the map is updated before the loop goes on
           IF Len(counted) > 0 THEN CountUsage(data, width, height, k + 1, counted)
           ELSE counted

\* String.fromCharCode(code) for the codes of the capital letters
CapitalLetters ==
  <<"A","B","C","D","E","F","G","H","I","J","K","L","M",
    "N","O","P","Q","R","S","T","U","V","W","X","Y","Z">>

fromCharCode(code) == CapitalLetters[code - 64]

\* a label with the letter for the row and the number for the column
BoardIdRowLetter(boardRow, boardCol) == fromCharCode(65 + boardRow) \o ToString(boardCol + 1)

\* boardId = String.fromCharCode(65 + boardCol) + (boardRow + 1)
BoardId(boardRow, boardCol) == fromCharCode(65 + boardCol) \o ToString(boardRow + 1)

\* a partition that swaps x and y within the board
BoardPixelTransposed(raster, boardRow, boardCol, x, y) ==
  LET globalY == boardRow * boardSize + x
      globalX == boardCol * boardSize + y
  IN  IF globalY < Rows(raster) /\ globalX < Cols(raster)
      THEN raster[globalY][globalX]
      ELSE "#FFFFFF"

\* the cell (x, y) of the board at (boardRow, boardCol)
BoardPixel(raster, boardRow, boardCol, x, y) ==
  LET globalY == boardRow * boardSize + y
      globalX == boardCol * boardSize + x
  IN  IF globalY < Rows(raster) /\ globalX < Cols(raster)
      THEN raster[globalY][globalX]
      ELSE "#FFFFFF"

\* the board partition loop: boards in row-major order of (boardRow, boardCol)
\* a partition loop with the column loop outside the row loop
PartitionBoardsColumnMajor(raster, gridCols, gridRows) ==
  [k \in 1..(gridRows * gridCols) |->
    LET boardRow == (k - 1) % gridRows
        boardCol == (k - 1) \div gridRows
    IN  [id |-> BoardId(boardRow, boardCol),
         position |-> [row |-> boardRow, col |-> boardCol],
         pixels |-> [y \in 0..(boardSize - 1) |->
                      [x \in 0..(boardSize - 1) |->
                        BoardPixel(raster, boardRow, boardCol, x, y)]]]]

PartitionBoards(raster, gridCols, gridRows) ==
  [k \in 1..(gridRows * gridCols) |->
    LET boardRow == (k - 1) \div gridCols
        boardCol == (k - 1) % gridCols
    IN  [id |-> BoardId(boardRow, boardCol),
         position |-> [row |-> boardRow, col |-> boardCol],
         pixels |-> [y \in 0..(boardSize - 1) |->
                      [x \in 0..(boardSize - 1) |->
                        BoardPixel(raster, boardRow, boardCol, x, y)]]]]

\* colorMap: the usage map's entries, each key split back into name and hex
ColorMapOf(colorUsage) ==
  [i \in 1..Len(colorUsage) |->
    [name |-> SplitKey(colorUsage[i].key)[1],
     hex |-> SplitKey(colorUsage[i].key)[2],
     count |-> colorUsage[i].count]]

\* pixelationResult of a run on the raw raster (the PNG data URI left out)
PixelationResult(raster, grid) ==
  LET quantized == Quantize(raster.data, raster.width, raster.height)
      colorUsage == CountUsage(raster.data, raster.width, raster.height, 0, <<>>)
      totalWidth == grid.gridCols * boardSize
      totalHeight == grid.gridRows * boardSize
  IN  [colorMap |-> ColorMapOf(colorUsage),
       boards |-> PartitionBoards(quantized, grid.gridCols, grid.gridRows),
       totalTiles |-> totalWidth * totalHeight]

(***************************************************************************)
(* PixelEditor: hit test, paint, pan, zoom, undo and redo.                 *)
(***************************************************************************)
\* base tile size before zoom
tileSize == 16

\* tile size of the expanded view: Math.max(6, ...) on a small viewport
expTileSize == 6

NoHit == [boardId |-> "none"]

RECURSIVE Gcd(_, _)
Gcd(a, b) == IF b = 0 THEN a ELSE Gcd(b, a % b)

\* a positive fraction <<num, den>> in lowest terms
Fraction(num, den) == <<num \div Gcd(num, den), den \div Gcd(num, den)>>

\* Math.min(prev * 1.5, 8)
ZoomedIn(prev) ==
  IF 3 * prev[1] >= 8 * 2 * prev[2] THEN <<8, 1>> ELSE Fraction(3 * prev[1], 2 * prev[2])

\* Math.max(prev / 1.5, 0.25)
ZoomedOut(prev) ==
  IF 4 * 2 * prev[1] <= 3 * prev[2] THEN <<1, 4>> ELSE Fraction(2 * prev[1], 3 * prev[2])

\* Array.find over the boards: index of the first board whose test holds,
\* 0 if none; found[i] is the test's result on the i-th board
FirstBoard(found) ==
  IF \E i \in 1..Len(found) : found[i]
  THEN CHOOSE i \in 1..Len(found) : found[i] /\ \A j \in 1..(i - 1) : ~found[j]
  ELSE 0

\* boards.find(b => b.id === boardId)
BoardById(bs, boardId) == FirstBoard([i \in 1..Len(bs) |-> bs[i].id = boardId])

\* a pointer position taken without the pan offset
ScaledXUnpanned(pos) == pos.x * zoomLevel[2]

\* pointer position in editor coordinates, times zoomLevel's numerator:
\* x = (event.clientX - rect.left - panOffset.x) / zoomLevel
ScaledX(pos) == (pos.x - panOffset.x) * zoomLevel[2]

ScaledY(pos) == (pos.y - panOffset.y) * zoomLevel[2]

\* the test of paintPixel's boards.find: the pointer lies within the board
ContainsPointer(b, pos) ==
  LET boardStartX == b.position.col * boardSize * tileSize
      boardStartY == b.position.row * boardSize * tileSize
      boardEndX == boardStartX + boardSize * tileSize
      boardEndY == boardStartY + boardSize * tileSize
  IN  /\ ScaledX(pos) >= boardStartX * zoomLevel[1]
      /\ ScaledX(pos) < boardEndX * zoomLevel[1]
      /\ ScaledY(pos) >= boardStartY * zoomLevel[1]
      /\ ScaledY(pos) < boardEndY * zoomLevel[1]

\* paintPixel's hit test: the board and cell under the pointer, or NoHit
HitTest(pos) ==
  LET k == FirstBoard([i \in 1..Len(boards) |-> ContainsPointer(boards[i], pos)])
  IN  IF k = 0 THEN NoHit
      ELSE LET board == boards[k]
               boardStartX == board.position.col * boardSize * tileSize
               boardStartY == board.position.row * boardSize * tileSize
               pixelX == (ScaledX(pos) - boardStartX * zoomLevel[1]) \div (tileSize * zoomLevel[1])
               pixelY == (ScaledY(pos) - boardStartY * zoomLevel[1]) \div (tileSize * zoomLevel[1])
           IN  IF pixelX >= 0 /\ pixelX < boardSize /\ pixelY >= 0 /\ pixelY < boardSize
               THEN [boardId |-> board.id, x |-> pixelX, y |-> pixelY]
               ELSE NoHit

\* the colour of a cell of the board with that id
PixelAt(bs, boardId, x, y) ==
  bs[BoardById(bs, boardId)].pixels[y][x]

\* targetBoard.pixels[y][x] = color on the board found by id
\* an assignment that recolours the whole row of the cell
SetPixelWholeRow(bs, boardId, x, y, color) ==
  LET k == BoardById(bs, boardId)
  IN  IF k = 0 THEN bs
      ELSE [bs EXCEPT ![k].pixels[y] = [c \in DOMAIN @ |-> color]]

SetPixel(bs, boardId, x, y, color) ==
  LET k == BoardById(bs, boardId)
  IN  IF k = 0 THEN bs
      ELSE [bs EXCEPT ![k].pixels[y][x] = color]

\* a paintPixel that records a change whatever the colour of the cell
PaintChangesAlways(hit) ==
  IF hit = NoHit THEN <<>>
  ELSE <<[boardId |-> hit.boardId, x |-> hit.x, y |-> hit.y,
          oldColor |-> PixelAt(boards, hit.boardId, hit.x, hit.y),
          newColor |-> selectedColor]>>

\* the PixelChange paintPixel records for a hit, none when the cell already
\* has the selected colour
PaintChanges(hit) ==
  IF hit = NoHit THEN <<>>
  ELSE LET oldColor == PixelAt(boards, hit.boardId, hit.x, hit.y)
       IN  IF oldColor # selectedColor
           THEN <<[boardId |-> hit.boardId, x |-> hit.x, y |-> hit.y,
                   oldColor |-> oldColor, newColor |-> selectedColor]>>
           ELSE <<>>

RECURSIVE ApplyOld(_, _, _)
\* lastBatch.forEach(change => pixels[change.y][change.x] = change.oldColor)
ApplyOld(bs, batch, i) ==
  IF i > Len(batch) THEN bs
  ELSE ApplyOld(SetPixel(bs, batch[i].boardId, batch[i].x, batch[i].y, batch[i].oldColor),
                batch, i + 1)

RECURSIVE ApplyNew(_, _, _)
\* nextBatch.forEach(change => pixels[change.y][change.x] = change.newColor)
ApplyNew(bs, batch, i) ==
  IF i > Len(batch) THEN bs
  ELSE ApplyNew(SetPixel(bs, batch[i].boardId, batch[i].x, batch[i].y, batch[i].newColor),
                batch, i + 1)

(***************************************************************************)
(* ExpandedBrickEditor: hit test and paint of the full view.               *)
(***************************************************************************)
\* getPixelFromMouseEvent: board, cell and current colour under the pointer
getPixelFromMouseEvent(pos) ==
  LET boardCol == pos.x \div (boardSize * expTileSize)
      boardRow == pos.y \div (boardSize * expTileSize)
      pixelX == (pos.x % (boardSize * expTileSize)) \div expTileSize
      pixelY == (pos.y % (boardSize * expTileSize)) \div expTileSize
      k == FirstBoard([i \in 1..Len(boards) |->
                         boards[i].position.col = boardCol /\ boards[i].position.row = boardRow])
  IN  IF k # 0 /\ pixelX >= 0 /\ pixelX < boardSize /\ pixelY >= 0 /\ pixelY < boardSize
      THEN [boardId |-> boards[k].id, x |-> pixelX, y |-> pixelY,
            currentColor |-> boards[k].pixels[pixelY][pixelX]]
      ELSE NoHit

\* whether paintPixelInExpanded calls onPixelChange: the cell differs from the
\* colour the closure holds and the closure's paintBatch has no entry for it
ExpandedPaints(pixelInfo, color, batch) ==
  /\ pixelInfo # NoHit
  /\ pixelInfo.currentColor # color
  /\ ~\E i \in 1..Len(batch) :
        /\ batch[i].boardId = pixelInfo.boardId
        /\ batch[i].x = pixelInfo.x
        /\ batch[i].y = pixelInfo.y

\* whether handleExpandedPixelChange applies the change it is called with
ExpandedApplies(boardId, x, y, newColor) ==
  /\ BoardById(boards, boardId) # 0
  /\ PixelAt(boards, boardId, x, y) # newColor

\* the undo stack handleExpandedPixelChange sets: [...undoStack, [change]]
\* with the undoStack of the render its closure belongs to
ExpandedUndoStack(closureUndoStack, change) == Append(closureUndoStack, <<change>>)

(***************************************************************************)
(* Pointer positions and inputs tried.                                     *)
(***************************************************************************)
\* positions on the main canvas, relative to its bounding rectangle: the
\* middle of the first cell of the first and of the second board column
CanvasPoints ==
  {[x |-> tileSize \div 2, y |-> tileSize \div 2],
   [x |-> boardSize * tileSize + tileSize \div 2, y |-> tileSize \div 2]}

\* positions on the expanded canvas: the middle of the first cell of the first
\* board column and of the first two cells of the second
ExpandedPoints ==
  {[x |-> expTileSize \div 2, y |-> expTileSize \div 2],
   [x |-> boardSize * expTileSize + expTileSize \div 2, y |-> expTileSize \div 2],
   [x |-> (boardSize + 1) * expTileSize + expTileSize \div 2, y |-> expTileSize \div 2]}

\* a position on the right edge of the expanded canvas, outside every board

ExpandedEdge == [x |-> 2 * boardSize * expTileSize, y |-> expTileSize \div 2]

\* colours of the picker: the first palette entries
EditorColors == {BRICK_COLORS[i].hex : i \in 1..NumEditorColors}

\* event.button and event.metaKey of the presses tried: left, Cmd+left,
\* middle, right
Presses ==
  {[button |-> 0, metaKey |-> FALSE], [button |-> 0, metaKey |-> TRUE],
   [button |-> 1, metaKey |-> FALSE], [button |-> 2, metaKey |-> FALSE]}

NoListener == [active |-> FALSE]

(***************************************************************************)
(* State, initial states.                                                  *)
(***************************************************************************)
serverVars == <<project, info, pixelatedData, gridDims>>

enhanceVars == <<brightness, contrast, saturation, sharpness>>

editorVars ==
  <<boards, selectedColor, zoomLevel, panOffset, lastPan, isDragging, isPainting,
    paintBatch, undoStack, redoStack, showExpandedEditor, expandedSelectedColor,
    expIsDragging, expPaintBatch, listener, hist, enhanceVars>>

runVars == <<imageFile, inflight, request, response, otherRequests, log>>

sessionVars ==
  <<currentStep, processing, results, projectId, mutation, timer, isEditing,
    projectFile, config>>

vars == <<serverVars, editorVars, runVars, sessionVars>>

NoRaster == [width |-> 0, height |-> 0]

\* no project uploaded, no run of the process endpoint yet
ServerIdle ==
  /\ project = NoProject
  /\ info = NoRaster
  /\ pixelatedData = <<>>
  /\ gridDims = [gridCols |-> 0, gridRows |-> 0]

\* the last step was neither a pointer-down nor the end of an empty gesture
NoEvent == [kind |-> "none"]

\* the history of a session that starts on the boards bs
NewHistory(bs) ==
  [post |-> bs, pure |-> TRUE,
   nChanges |-> 0, nEnhancements |-> 0,
   committed |-> <<>>, afterGesture |-> "none",
   gestureStart |-> <<>>, undoLenAtDown |-> 0, gestureChanges |-> 0,
   event |-> NoEvent]

\* useState initial values of PixelEditor mounted on the boards bs
EditorMounted(bs) ==
  /\ boards = bs
  /\ selectedColor = "#000000"
  /\ zoomLevel = <<1, 1>>
  /\ panOffset = [x |-> 0, y |-> 0]
  /\ lastPan = [x |-> 0, y |-> 0]
  /\ isDragging = FALSE
  /\ isPainting = FALSE
  /\ paintBatch = <<>>
  /\ undoStack = <<>>
  /\ redoStack = <<>>
  /\ brightness = 0
  /\ contrast = 0
  /\ saturation = 0
  /\ sharpness = 0
  /\ showExpandedEditor = FALSE
  /\ expandedSelectedColor = "#000000"
  /\ expIsDragging = FALSE
  /\ expPaintBatch = <<>>
  /\ listener = NoListener
  /\ hist = NewHistory(bs)

\* the result the editor is opened on: a 2x2 project whose image runs through
\* the samples from left to right, so that its columns are quantized to
\* #000000, #000000, #F5F5F5, #AA0000
InitialResult ==
  LET grid == ResolveGrid("2x2", 4)
  IN  PixelationResult(
        [width |-> grid.gridCols * boardSize, height |-> grid.gridRows * boardSize,
         data |-> RasterData(grid.gridCols * boardSize, grid.gridRows * boardSize, 1, 0, 0)],
        grid)

\* the boards the editor is mounted on
InitialBoards == InitialResult.boards

Requesters == {"session", "other"}

NoRun == [state |-> "none"]

NoResponse == [state |-> "none"]

NoFile == [state |-> "none"]

\* no write to the project yet, no delete, no editing session with history
NoWrites ==
  [by |-> "none", payload |-> NoResult, prevBy |-> "none", prevPayload |-> NoResult,
   deleted |-> FALSE, hadHistory |-> FALSE]

\* no request being handled
RunsIdle ==
  /\ imageFile = FALSE
  /\ inflight = [who \in Requesters |-> NoRun]
  /\ request = FALSE
  /\ response = NoResponse
  /\ otherRequests = 0
  /\ log = NoWrites

\* useState initial values of Home, ProcessingView not mounted
\* home.tsx: useState(4), useState("2x2"), useState(2), useState(2)
InitialConfig == [boardCount |-> 4, boardLayout |-> "2x2", boardRows |-> 2, boardCols |-> 2]

HomeMounted ==
  /\ currentStep = 1
  /\ processing = FALSE
  /\ results = NoResult
  /\ projectId = 0
  /\ mutation = "idle"
  /\ timer = NoResult
  /\ isEditing = FALSE
  /\ projectFile = NoFile
  /\ config = InitialConfig

\* Home showing the results view of result, with the editor open
HomeEditing(result) ==
  /\ currentStep = 3
  /\ processing = FALSE
  /\ results = result
  /\ projectId = 1
  /\ mutation = "idle"
  /\ timer = NoResult
  /\ isEditing = TRUE
  /\ projectFile = NoFile
  /\ config = InitialConfig

Init ==
  /\ ServerIdle
  /\ RunsIdle
  /\ EditorMounted(InitialBoards)
  /\ HomeEditing(InitialResult)

InitServer ==
  /\ ServerIdle
  /\ RunsIdle
  /\ EditorMounted(<<>>)
  /\ HomeMounted

(***************************************************************************)
(* Server actions.                                                         *)
(***************************************************************************)
\* POST /api/upload: storage.createProject with the request's fields
createProject(boardCount, boardLayout) ==
  /\ project' = [boardCount |-> boardCount, boardLayout |-> boardLayout,
                 status |-> "processing", pixelationResult |-> NoResult]
  /\ info' = NoRaster
  /\ pixelatedData' = <<>>
  /\ gridDims' = [gridCols |-> 0, gridRows |-> 0]
  /\ imageFile' = TRUE

Upload(boardCount, boardLayout) ==
  /\ createProject(boardCount, boardLayout)
  /\ UNCHANGED <<editorVars, inflight, request, response, otherRequests, log, sessionVars>>

\* the process endpoint on a raster of the given size
ProcessRaster(width, height, a, b, c) ==
  /\ project # NoProject
  /\ LET grid == ResolveGrid(project.boardLayout, project.boardCount)
         raster == [width |-> width, height |-> height,
                    data |-> RasterData(width, height, a, b, c)]
     IN  /\ gridDims' = grid
         /\ info' = raster
         /\ pixelatedData' = Quantize(raster.data, width, height)
         /\ project' = [project EXCEPT !.pixelationResult = PixelationResult(raster, grid),
                                       !.status = "completed"]
  /\ UNCHANGED <<editorVars, runVars, sessionVars>>

\* POST /api/projects/:id/process: sharp resizes the image to the grid with
\* fit "fill", so the raw raster is totalWidth x totalHeight
ProcessImage(a, b, c) ==
  /\ project # NoProject
  /\ LET grid == ResolveGrid(project.boardLayout, project.boardCount)
     IN  ProcessRaster(grid.gridCols * boardSize, grid.gridRows * boardSize, a, b, c)

\* a catch branch that also drops the result stored before
FailedProjectCleared(p) == [p EXCEPT !.status = "failed", !.pixelationResult = NoResult]

\* storage.updateProject(req.params.id, { status: "failed" })
FailedProject(p) == [p EXCEPT !.status = "failed"]

\* the catch branch: sharp threw, the project is marked failed
ProcessError ==
  /\ project # NoProject
  /\ project' = FailedProject(project)
  /\ UNCHANGED <<info, pixelatedData, gridDims, editorVars, runVars, sessionVars>>

RasterCoefs == 0..MaxRasterCoef

NextServer ==
  \/ \E n \in BoardCounts, l \in Layouts : Upload(n, l)
  \/ \E a \in RasterCoefs, b \in RasterCoefs, c \in RasterCoefs : ProcessImage(a, b, c)
  \/ ProcessError

SpecServer == InitServer /\ [][NextServer]_vars

\* the quantization and partition loops on rasters of any size up to the grid's
RasterWidths == 1..(2 * boardSize)

\* the loops run on rasters narrower, wider, lower and higher than the grid,
\* with sample (a*x + 2*y) at (x, y)
NextLoops ==
  \/ \E n \in BoardCounts, l \in {"1x1", "2x2"} : Upload(n, l)
  \/ \E w \in RasterWidths, h \in RasterWidths, a \in RasterCoefs :
        ProcessRaster(w, h, a, 2, 0)

SpecLoops == InitServer /\ [][NextLoops]_vars

(***************************************************************************)
(* Editor actions: one per event handler.  The expanded view is a modal    *)
(* dialog: while it is open the page behind it receives no input.          *)
(***************************************************************************)
\* the history entry of a step that belongs to no gesture: the marks of the
\* previous step and of the last gesture are dropped
Touch(h) ==
  [h EXCEPT !.committed = <<>>, !.afterGesture = "none",
            !.gestureStart = <<>>, !.undoLenAtDown = 0, !.gestureChanges = 0,
            !.event = NoEvent]

\* the history entry of a step within a gesture
TouchGesture(h) ==
  [h EXCEPT !.committed = <<>>, !.afterGesture = "none", !.event = NoEvent]

\* a paint gesture is in progress on the canvas or in the expanded view
InGesture == isPainting \/ expIsDragging

Mark(h, inGesture) == IF inGesture THEN TouchGesture(h) ELSE Touch(h)

\* pan offsets the model follows: up to MaxPanSteps board widths to the right
PanInRange(offset) ==
  /\ offset <= MaxPanSteps * boardSize * tileSize
  /\ offset >= 0

RECURSIVE ZoomReach(_)
\* zoom levels the model follows: up to MaxZoomSteps presses of zoom-in from
\* 100%, and the way back
ZoomReach(k) ==
  IF k = 0 THEN {<<1, 1>>}
  ELSE LET S == ZoomReach(k - 1)
       IN  S \cup {ZoomedIn(z) : z \in S}

ZoomLevels == ZoomReach(MaxZoomSteps)

\* a return that drops the batch of the gesture in progress
EarlyReturnClearingBatch ==
  [boards |-> boards, undoStack |-> undoStack, redoStack |-> redoStack,
   paintBatch |-> <<>>, saved |-> FALSE]

\* what a handler leaves when it returns before setting any state
EarlyReturn ==
  [boards |-> boards, undoStack |-> undoStack, redoStack |-> redoStack,
   paintBatch |-> paintBatch, saved |-> FALSE]

\* handleMouseDown, pan branch: middle button or Cmd+left
StartPan(pos) ==
  /\ isDragging' = TRUE
  /\ lastPan' = pos
  /\ hist' = Mark(hist, InGesture)
  /\ UNCHANGED <<boards, selectedColor, zoomLevel, panOffset, isPainting, paintBatch,
                 undoStack, redoStack, showExpandedEditor, expandedSelectedColor,
                 expIsDragging, expPaintBatch, listener>>

\* handleMouseDown, paint branch: left button without Cmd
StartPaint(pos) ==
  LET changes == PaintChanges(HitTest(pos))
  IN  /\ hist.nChanges + Len(changes) <= MaxChanges
      /\ isPainting' = TRUE
      /\ paintBatch' = changes
      /\ boards' = ApplyNew(boards, changes, 1)
      /\ hist' = [TouchGesture(hist) EXCEPT !.nChanges = @ + Len(changes),
                                     !.pure = @ /\ paintBatch = <<>>,
                                     !.gestureStart = boards,
                                     !.undoLenAtDown = Len(undoStack),
                                     !.gestureChanges = Len(changes),
                                     !.event = [kind |-> "down", where |-> "main",
                                                hit |-> HitTest(pos)]]
      /\ UNCHANGED <<selectedColor, zoomLevel, panOffset, lastPan, isDragging,
                     undoStack, redoStack, showExpandedEditor, expandedSelectedColor,
                     expIsDragging, expPaintBatch, listener>>

MouseDown(button, metaKey, pos) ==
  /\ ~showExpandedEditor
  /\ IF button = 1 \/ (button = 0 /\ metaKey) THEN StartPan(pos)
     ELSE IF button = 0 /\ ~metaKey THEN StartPaint(pos)
     ELSE UNCHANGED editorVars
  /\ UNCHANGED <<serverVars, runVars, sessionVars, enhanceVars>>

\* handleMouseMove
\* a move handler that paints whatever the painting flag says
MovePaintsAlways == TRUE

\* else if (isPainting)
MovePaints == isPainting

\* what handleMouseMove leaves of boards, stacks and the batch of the gesture
MoveResult(pos) ==
  IF isDragging THEN EarlyReturn
  ELSE IF MovePaints
  THEN LET changes == PaintChanges(HitTest(pos))
       IN  [boards |-> ApplyNew(boards, changes, 1),
            undoStack |-> undoStack,
            redoStack |-> redoStack,
            paintBatch |-> paintBatch \o changes,
            saved |-> FALSE]
  ELSE EarlyReturn

MouseMove(pos) ==
  /\ ~showExpandedEditor
  /\ IF isDragging
     THEN LET deltaX == pos.x - lastPan.x
              deltaY == pos.y - lastPan.y
              moved == deltaX # 0 \/ deltaY # 0
          IN  /\ PanInRange(panOffset.x + deltaX) /\ PanInRange(panOffset.y + deltaY)
              /\ panOffset' = [x |-> panOffset.x + deltaX, y |-> panOffset.y + deltaY]
              /\ lastPan' = pos
              /\ hist' = Mark(hist, InGesture)
              /\ UNCHANGED <<boards, selectedColor, zoomLevel, isDragging, isPainting,
                             paintBatch, undoStack, redoStack, showExpandedEditor,
                             expandedSelectedColor, expIsDragging, expPaintBatch, listener>>
     ELSE LET r == MoveResult(pos)
              n == Len(r.paintBatch) - Len(paintBatch)
          IN  /\ hist.nChanges + n <= MaxChanges
              /\ paintBatch' = r.paintBatch
              /\ boards' = r.boards
              /\ hist' = IF isPainting
                         THEN [TouchGesture(hist) EXCEPT !.nChanges = @ + n,
                                                  !.gestureChanges = @ + n]
                         ELSE hist
              /\ UNCHANGED <<selectedColor, zoomLevel, panOffset, lastPan, isDragging,
                             isPainting, undoStack, redoStack, showExpandedEditor,
                             expandedSelectedColor, expIsDragging, expPaintBatch, listener>>
  /\ UNCHANGED <<serverVars, runVars, sessionVars, enhanceVars>>

\* a test that lets every gesture commit its batch
HasChangesAlways(batch) == TRUE

\* the batch handleMouseUp pushes onto the undo stack
CommittedStack(stack, batch) == Append(stack, batch)

\* the test of handleMouseUp for a batch to commit
HasChanges(batch) == Len(batch) > 0

\* handleMouseUp, bound to onMouseUp and to onMouseLeave
handleMouseUp ==
  /\ IF isPainting
     THEN /\ IF HasChanges(paintBatch)
             THEN /\ undoStack' = CommittedStack(undoStack, paintBatch)
                  /\ redoStack' = <<>>
                  /\ hist' = [TouchGesture(hist) EXCEPT !.committed = paintBatch,
                                                 !.post = boards,
                                                 !.afterGesture = "main"]
             ELSE /\ UNCHANGED <<undoStack, redoStack>>
                  /\ hist' = [Mark(hist, expIsDragging) EXCEPT
                                !.event = [kind |-> "emptyEnd"]]
          /\ isPainting' = FALSE
          /\ paintBatch' = <<>>
     ELSE /\ UNCHANGED <<isPainting, paintBatch, undoStack, redoStack>>
          /\ hist' = IF isDragging THEN Mark(hist, InGesture) ELSE hist
  /\ isDragging' = FALSE
  /\ UNCHANGED <<boards, selectedColor, zoomLevel, panOffset, lastPan,
                 showExpandedEditor, expandedSelectedColor, expIsDragging,
                 expPaintBatch, listener>>

MouseUp ==
  /\ ~showExpandedEditor
  /\ handleMouseUp
  /\ UNCHANGED <<serverVars, runVars, sessionVars, enhanceVars>>

MouseLeave ==
  /\ ~showExpandedEditor
  /\ handleMouseUp
  /\ UNCHANGED <<serverVars, runVars, sessionVars, enhanceVars>>

\* a slice that drops the oldest batch
PoppedOldest(stack) == SubSeq(stack, 2, Len(stack))

\* prev.slice(0, -1)
Popped(stack) == SubSeq(stack, 1, Len(stack) - 1)

\* what handleUndo leaves: the boards, the stacks, the batch of the gesture
\* in progress, and whether it called onSaveChanges
UndoResult ==
  IF Len(undoStack) = 0 THEN EarlyReturn
  ELSE LET lastBatch == undoStack[Len(undoStack)]
       IN  [boards |-> ApplyOld(boards, lastBatch, 1),
            undoStack |-> Popped(undoStack),
            redoStack |-> Append(redoStack, lastBatch),
            paintBatch |-> paintBatch,
            saved |-> TRUE]

\* handleUndo
Undo ==
  /\ ~showExpandedEditor
  /\ boards' = UndoResult.boards
  /\ undoStack' = UndoResult.undoStack
  /\ redoStack' = UndoResult.redoStack
  /\ paintBatch' = UndoResult.paintBatch
  /\ hist' = IF Len(undoStack) = 0 THEN hist
             ELSE [Mark(hist, InGesture) EXCEPT !.pure = @ /\ ~isPainting]
  /\ UNCHANGED <<selectedColor, zoomLevel, panOffset, lastPan, isDragging,
                 isPainting, showExpandedEditor,
                 expandedSelectedColor, expIsDragging, expPaintBatch, listener>>
  /\ UNCHANGED <<serverVars, runVars, sessionVars, enhanceVars>>

\* what handleRedo leaves
RedoResult ==
  IF Len(redoStack) = 0 THEN EarlyReturn
  ELSE LET nextBatch == redoStack[Len(redoStack)]
       IN  [boards |-> ApplyNew(boards, nextBatch, 1),
            undoStack |-> Append(undoStack, nextBatch),
            redoStack |-> Popped(redoStack),
            paintBatch |-> paintBatch,
            saved |-> TRUE]

\* handleRedo
Redo ==
  /\ ~showExpandedEditor
  /\ boards' = RedoResult.boards
  /\ undoStack' = RedoResult.undoStack
  /\ redoStack' = RedoResult.redoStack
  /\ paintBatch' = RedoResult.paintBatch
  /\ hist' = IF Len(redoStack) = 0 THEN hist
             ELSE [Mark(hist, InGesture) EXCEPT !.pure = @ /\ ~isPainting]
  /\ UNCHANGED <<selectedColor, zoomLevel, panOffset, lastPan, isDragging,
                 isPainting, showExpandedEditor,
                 expandedSelectedColor, expIsDragging, expPaintBatch, listener>>
  /\ UNCHANGED <<serverVars, runVars, sessionVars, enhanceVars>>

\* a palette button of the editor: setSelectedColor(color.hex)
SelectColor(color) ==
  /\ ~showExpandedEditor
  /\ selectedColor' = color
  /\ hist' = Mark(hist, InGesture)
  /\ UNCHANGED <<boards, zoomLevel, panOffset, lastPan, isDragging, isPainting, paintBatch,
                 undoStack, redoStack, showExpandedEditor, expandedSelectedColor,
                 expIsDragging, expPaintBatch, listener>>
  /\ UNCHANGED <<serverVars, runVars, sessionVars, enhanceVars>>

\* handleZoomIn
ZoomIn ==
  /\ ~showExpandedEditor
  /\ ZoomedIn(zoomLevel) \in ZoomLevels
  /\ zoomLevel' = ZoomedIn(zoomLevel)
  /\ hist' = Mark(hist, InGesture)
  /\ UNCHANGED <<boards, selectedColor, panOffset, lastPan, isDragging, isPainting,
                 paintBatch, undoStack, redoStack, showExpandedEditor,
                 expandedSelectedColor, expIsDragging, expPaintBatch, listener>>
  /\ UNCHANGED <<serverVars, runVars, sessionVars, enhanceVars>>

\* handleZoomOut
ZoomOut ==
  /\ ~showExpandedEditor
  /\ ZoomedOut(zoomLevel) \in ZoomLevels
  /\ zoomLevel' = ZoomedOut(zoomLevel)
  /\ hist' = Mark(hist, InGesture)
  /\ UNCHANGED <<boards, selectedColor, panOffset, lastPan, isDragging, isPainting,
                 paintBatch, undoStack, redoStack, showExpandedEditor,
                 expandedSelectedColor, expIsDragging, expPaintBatch, listener>>
  /\ UNCHANGED <<serverVars, runVars, sessionVars, enhanceVars>>

\* the Full View button: setShowExpandedEditor(true) mounts the expanded editor.
\* The button is pressed with the pointer, which has left the canvas by then
\* (onMouseLeave ends any canvas gesture).
OpenExpanded ==
  /\ ~showExpandedEditor
  /\ ~isPainting /\ ~isDragging
  /\ showExpandedEditor' = TRUE
  /\ hist' = Mark(hist, InGesture)
  /\ UNCHANGED <<boards, selectedColor, zoomLevel, panOffset, lastPan, isDragging,
                 isPainting, paintBatch, undoStack, redoStack, expandedSelectedColor,
                 expIsDragging, expPaintBatch, listener>>
  /\ UNCHANGED <<serverVars, runVars, sessionVars, enhanceVars>>

\* closing the dialog unmounts the expanded editor: its state and its
\* document listeners are gone
CloseExpanded ==
  /\ showExpandedEditor
  /\ showExpandedEditor' = FALSE
  /\ expIsDragging' = FALSE
  /\ expPaintBatch' = <<>>
  /\ listener' = NoListener
  /\ hist' = Mark(hist, isPainting)
  /\ UNCHANGED <<boards, selectedColor, zoomLevel, panOffset, lastPan, isDragging,
                 isPainting, paintBatch, undoStack, redoStack, expandedSelectedColor>>
  /\ UNCHANGED <<serverVars, runVars, sessionVars, enhanceVars>>

\* a palette button of the dialog: setExpandedSelectedColor(color.hex)
ExpandedSelectColor(color) ==
  /\ showExpandedEditor
  /\ expandedSelectedColor' = color
  /\ hist' = Mark(hist, InGesture)
  /\ UNCHANGED <<boards, selectedColor, zoomLevel, panOffset, lastPan, isDragging,
                 isPainting, paintBatch, undoStack, redoStack, showExpandedEditor,
                 expIsDragging, expPaintBatch, listener>>
  /\ UNCHANGED <<serverVars, runVars, sessionVars, enhanceVars>>

\* paintPixelInExpanded and the handleExpandedPixelChange it calls, run with
\* the colour, paintBatch and undoStack of the closure that calls them
\* what paintPixelInExpanded and, through onPixelChange,
\* handleExpandedPixelChange leave; paintBatch is the dialog's own batch
ExpandedPaintResult(pixelInfo, color, closureBatch, closureUndoStack, batchBefore) ==
  LET paints == ExpandedPaints(pixelInfo, color, closureBatch)
      applies == paints /\ ExpandedApplies(pixelInfo.boardId, pixelInfo.x, pixelInfo.y, color)
      change == [boardId |-> pixelInfo.boardId, x |-> pixelInfo.x, y |-> pixelInfo.y,
                 oldColor |-> pixelInfo.currentColor, newColor |-> color]
      entry == [boardId |-> pixelInfo.boardId, x |-> pixelInfo.x, y |-> pixelInfo.y,
                oldColor |-> pixelInfo.currentColor]
  IN  [boards |-> IF applies
                  THEN SetPixel(boards, pixelInfo.boardId, pixelInfo.x, pixelInfo.y, color)
                  ELSE boards,
       undoStack |-> IF applies THEN ExpandedUndoStack(closureUndoStack, change)
                     ELSE undoStack,
       redoStack |-> IF applies THEN <<>> ELSE redoStack,
       paintBatch |-> IF paints THEN Append(batchBefore, entry) ELSE batchBefore,
       saved |-> applies]

ExpandedPaint(pixelInfo, color, closureBatch, closureUndoStack, batchBefore, h) ==
  LET paints == ExpandedPaints(pixelInfo, color, closureBatch)
      applies == paints /\ ExpandedApplies(pixelInfo.boardId, pixelInfo.x, pixelInfo.y, color)
      change == [boardId |-> pixelInfo.boardId, x |-> pixelInfo.x, y |-> pixelInfo.y,
                 oldColor |-> pixelInfo.currentColor, newColor |-> color]
      r == ExpandedPaintResult(pixelInfo, color, closureBatch, closureUndoStack, batchBefore)
  IN  /\ applies => h.nChanges < MaxChanges
      /\ expPaintBatch' = r.paintBatch
      /\ boards' = r.boards
      /\ undoStack' = r.undoStack
      /\ redoStack' = r.redoStack
      /\ hist' = IF applies
                 THEN [TouchGesture(h) EXCEPT !.committed = <<change>>,
                                       !.nChanges = @ + 1,
                                       !.gestureChanges = @ + 1,
                                       !.pure = FALSE]
                 ELSE TouchGesture(h)

\* ExpandedBrickEditor.handleMouseDown; when isDragging turns true the effect
\* registers the document listeners, which keep this render's closures
ExpandedMouseDown(pos) ==
  /\ showExpandedEditor
  /\ LET pixelInfo == getPixelFromMouseEvent(pos)
     IN  IF pixelInfo = NoHit
         THEN /\ hist' = [Mark(hist, InGesture) EXCEPT
                            !.event = [kind |-> "down", where |-> "expanded",
                                       hit |-> NoHit]]
              /\ UNCHANGED <<boards, selectedColor, zoomLevel, panOffset, lastPan,
                             isDragging, isPainting, paintBatch, undoStack, redoStack,
                             showExpandedEditor, expandedSelectedColor, expIsDragging,
                             expPaintBatch, listener>>
         ELSE /\ expIsDragging' = TRUE
              /\ ExpandedPaint(pixelInfo, expandedSelectedColor, expPaintBatch,
                               undoStack, <<>>,
                               [hist EXCEPT !.gestureStart = boards,
                                            !.undoLenAtDown = Len(undoStack),
                                            !.gestureChanges = 0])
              /\ listener' = IF expIsDragging THEN listener
                             ELSE [active |-> TRUE,
                                   selectedColor |-> expandedSelectedColor,
                                   paintBatch |-> expPaintBatch',
                                   undoStack |-> undoStack']
              /\ UNCHANGED <<selectedColor, zoomLevel, panOffset, lastPan, isDragging,
                             isPainting, paintBatch, showExpandedEditor,
                             expandedSelectedColor>>
  /\ UNCHANGED <<serverVars, runVars, sessionVars, enhanceVars>>

\* what the dialog's handleMouseMove leaves, run by the document listener
\* with the state its closure holds: if (!isDragging) return
ExpandedMoveResult(pos) ==
  LET pixelInfo == getPixelFromMouseEvent(pos)
      unmoved == [EarlyReturn EXCEPT !.paintBatch = expPaintBatch]
  IN  IF ~expIsDragging THEN unmoved
      ELSE IF pixelInfo = NoHit THEN unmoved
      ELSE ExpandedPaintResult(pixelInfo, listener.selectedColor, listener.paintBatch,
                               listener.undoStack, expPaintBatch)

\* handleGlobalMouseMove: the document listener registered at drag start; it
\* paints only while the pointer is within the canvas rectangle
ExpandedMouseMove(pos) ==
  /\ showExpandedEditor
  /\ expIsDragging
  /\ LET pixelInfo == getPixelFromMouseEvent(pos)
     IN  IF pixelInfo = NoHit THEN UNCHANGED editorVars
         ELSE /\ ExpandedPaint(pixelInfo, listener.selectedColor, listener.paintBatch,
                               listener.undoStack, expPaintBatch, hist)
              /\ UNCHANGED <<selectedColor, zoomLevel, panOffset, lastPan, isDragging,
                             isPainting, paintBatch, showExpandedEditor,
                             expandedSelectedColor, expIsDragging, listener>>
  /\ UNCHANGED <<serverVars, runVars, sessionVars, enhanceVars>>

\* handleGlobalMouseUp: the drag ends, the effect removes the listeners
ExpandedMouseUp ==
  /\ showExpandedEditor
  /\ expIsDragging
  /\ expIsDragging' = FALSE
  /\ expPaintBatch' = <<>>
  /\ listener' = NoListener
  /\ hist' = IF hist.gestureChanges > 0
             THEN [TouchGesture(hist) EXCEPT !.afterGesture = "expanded"]
             ELSE Mark(hist, isPainting)
  /\ UNCHANGED <<boards, selectedColor, zoomLevel, panOffset, lastPan, isDragging,
                 isPainting, paintBatch, undoStack, redoStack, showExpandedEditor,
                 expandedSelectedColor>>
  /\ UNCHANGED <<serverVars, runVars, sessionVars, enhanceVars>>

Next ==
  \/ \E press \in Presses, pos \in CanvasPoints :
        MouseDown(press.button, press.metaKey, pos)
  \/ \E pos \in CanvasPoints : MouseMove(pos)
  \/ MouseUp
  \/ MouseLeave
  \/ Undo
  \/ Redo
  \/ \E color \in EditorColors : SelectColor(color)
  \/ ZoomIn
  \/ ZoomOut
  \/ OpenExpanded
  \/ CloseExpanded
  \/ \E color \in EditorColors : ExpandedSelectColor(color)
  \/ \E pos \in ExpandedPoints : ExpandedMouseDown(pos)
  \/ \E pos \in ExpandedPoints \cup {ExpandedEdge} : ExpandedMouseMove(pos)
  \/ ExpandedMouseUp

Spec == Init /\ [][Next]_vars

(***************************************************************************)
(* The session around the editor and the requests to one project: the Home *)
(* page with its processing, results and editor views, the process, save   *)
(* and delete endpoints, and the requests other sessions make to the same  *)
(* project.  The process endpoint is followed from the read of the project *)
(* to its updateProject, so that other requests are handled in between.    *)
(***************************************************************************)
\* stacks taken over from the editing session before
KeptStack == undoStack

\* the stacks a mounting PixelEditor starts with: useState<PixelChange[][]>([])
InitialStack == <<>>

\* PixelEditor mounts on the boards bs: every useState takes its initial value
MountEditor(bs) ==
  /\ boards' = bs
  /\ selectedColor' = "#000000"
  /\ zoomLevel' = <<1, 1>>
  /\ panOffset' = [x |-> 0, y |-> 0]
  /\ lastPan' = [x |-> 0, y |-> 0]
  /\ isDragging' = FALSE
  /\ isPainting' = FALSE
  /\ paintBatch' = <<>>
  /\ undoStack' = InitialStack
  /\ redoStack' = InitialStack
  /\ brightness' = 0
  /\ contrast' = 0
  /\ saturation' = 0
  /\ sharpness' = 0
  /\ showExpandedEditor' = FALSE
  /\ expandedSelectedColor' = "#000000"
  /\ expIsDragging' = FALSE
  /\ expPaintBatch' = <<>>
  /\ listener' = NoListener
  /\ hist' = NewHistory(bs)

\* PixelEditor unmounts: its state is gone
UnmountEditor == MountEditor(<<>>)

\* the result object Home, ResultsView and PixelEditor share: the editor
\* paints into its boards in place
SharedResult == IF isEditing THEN [results EXCEPT !.boards = boards] ELSE results

\* the history of writes after a write of payload by a session
Written(by, payload) ==
  [log EXCEPT !.by = by, !.payload = payload,
              !.prevBy = log.by, !.prevPayload = log.payload]

\* the history after an editing session ends
EditingEnded == [log EXCEPT !.hadHistory = @ \/ undoStack # <<>> \/ redoStack # <<>>]

\* a column written by updateProject keeps part of its value before
StoredColumnMerged(old, payload) ==
  IF old = NoResult THEN payload ELSE [payload EXCEPT !.colorMap = old.colorMap]

\* db.update(projects).set({ ...updates }): the column takes the value given
StoredColumn(old, payload) == payload

\* the configuration view is shown
ConfigurationShown == ~processing /\ results = NoResult

\* the results view is shown
ResultsShown == ~processing /\ results # NoResult

\* handleImageUpload
handleImageUpload ==
  /\ ConfigurationShown
  /\ currentStep' = 2
  /\ UNCHANGED <<processing, results, projectId, mutation, timer, isEditing, projectFile, config>>
  /\ UNCHANGED <<serverVars, editorVars, runVars>>

\* configurations of the board picker: a board count with its preset layout
Configurations == {[boardCount |-> 1, boardLayout |-> "1x1"],
                   [boardCount |-> 4, boardLayout |-> "2x2"]}

\* Start Pixelation: the upload mutation posts the image, the upload endpoint
\* creates the project, onSuccess calls handleStartPixelation, ProcessingView
\* mounts and its effect calls processImageMutation.mutate
StartPixelation(boardCount, boardLayout) ==
  /\ ConfigurationShown
  /\ currentStep = 2
  /\ project = NoProject
  /\ createProject(boardCount, boardLayout)
  /\ projectId' = 1
  /\ currentStep' = 3
  /\ processing' = TRUE
  /\ mutation' = "pending"
  /\ request' = TRUE
  /\ UNCHANGED <<results, timer, isEditing, projectFile, config>>
  /\ UNCHANGED <<editorVars, inflight, response, otherRequests, log>>

\* the process endpoint up to its first await on sharp: the project is read
\* and the grid resolved; the image is read if the file is there
BeginProcess(who, a) ==
  /\ project # NoProject
  /\ inflight[who] = NoRun
  /\ IF who = "session"
     THEN /\ request
          /\ request' = FALSE
          /\ UNCHANGED otherRequests
     ELSE /\ otherRequests < MaxOtherRequests
          /\ otherRequests' = otherRequests + 1
          /\ UNCHANGED request
  /\ inflight' = [inflight EXCEPT ![who] =
                    [state |-> "running",
                     grid |-> ResolveGrid(project.boardLayout, project.boardCount),
                     a |-> a,
                     imageRead |-> imageFile]]
  /\ UNCHANGED <<imageFile, response, log>>
  /\ UNCHANGED <<serverVars, editorVars, sessionVars>>

\* the process endpoint from the loops to its answer
FinishProcess(who) ==
  /\ inflight[who] # NoRun
  /\ inflight[who].imageRead
  /\ LET grid == inflight[who].grid
         width == grid.gridCols * boardSize
         height == grid.gridRows * boardSize
         raster == [width |-> width, height |-> height,
                    data |-> RasterData(width, height, inflight[who].a, 0, 0)]
         pixelationResult == PixelationResult(raster, grid)
     IN  /\ gridDims' = grid
         /\ info' = raster
         /\ pixelatedData' = Quantize(raster.data, width, height)
         /\ project' = [project EXCEPT
                          !.pixelationResult = StoredColumn(@, pixelationResult),
                          !.status = "completed"]
         /\ log' = Written(who, pixelationResult)
         /\ response' = IF who = "session"
                        THEN [state |-> "ok", result |-> pixelationResult]
                        ELSE response
  /\ inflight' = [inflight EXCEPT ![who] = NoRun]
  /\ UNCHANGED <<imageFile, request, otherRequests>>
  /\ UNCHANGED <<editorVars, sessionVars>>

\* the catch branch of the process endpoint
FailProcess(who) ==
  /\ inflight[who] # NoRun
  /\ project' = FailedProject(project)
  /\ response' = IF who = "session" THEN [state |-> "error"] ELSE response
  /\ inflight' = [inflight EXCEPT ![who] = NoRun]
  /\ UNCHANGED <<info, pixelatedData, gridDims, imageFile, request, otherRequests, log>>
  /\ UNCHANGED <<editorVars, sessionVars>>

\* processImageMutation's onSuccess and onError; the answer to a view that
\* has unmounted is dropped
ReceiveResponse ==
  /\ response # NoResponse
  /\ response' = NoResponse
  /\ IF processing /\ mutation = "pending"
     THEN IF response.state = "ok"
          THEN /\ mutation' = "success"
               /\ timer' = response.result
          ELSE /\ mutation' = "error"
               /\ UNCHANGED timer
     ELSE UNCHANGED <<mutation, timer>>
  /\ UNCHANGED <<currentStep, processing, results, projectId, isEditing, projectFile, config>>
  /\ UNCHANGED <<imageFile, inflight, request, otherRequests, log>>
  /\ UNCHANGED <<serverVars, editorVars>>

\* a hand-over that leaves the processing view up
CompletionKeepsProcessing(result) ==
  /\ results' = result
  /\ processing' = processing

\* setResults(result); setProcessing(false)
CompletionDelivered(result) ==
  /\ results' = result
  /\ processing' = FALSE

\* the timer of onSuccess fires: onComplete is handleProcessingComplete
handleProcessingComplete ==
  /\ timer # NoResult
  /\ CompletionDelivered(timer)
  /\ timer' = NoResult
  /\ mutation' = "idle"
  /\ UNCHANGED <<currentStep, projectId, isEditing, projectFile, config>>
  /\ UNCHANGED <<serverVars, editorVars, runVars>>

\* Edit Pixels: setIsEditing(true), PixelEditor mounts on editedResults
EnterEditor ==
  /\ ResultsShown
  /\ ~isEditing
  /\ isEditing' = TRUE
  /\ MountEditor(results.boards)
  /\ UNCHANGED <<currentStep, processing, results, projectId, mutation, timer, projectFile, config>>
  /\ UNCHANGED <<serverVars, runVars>>

\* Back to Results: setIsEditing(false), PixelEditor unmounts
ExitEditor ==
  /\ isEditing
  /\ isEditing' = FALSE
  /\ results' = SharedResult
  /\ UnmountEditor
  /\ log' = EditingEnded
  /\ UNCHANGED <<currentStep, processing, projectId, mutation, timer, projectFile, config>>
  /\ UNCHANGED <<serverVars, imageFile, inflight, request, response, otherRequests>>

\* handleSave of the editor: the project file written
handleSave ==
  /\ isEditing
  /\ projectFile' = [pixelationResult |-> SharedResult]
  /\ UNCHANGED <<currentStep, processing, results, projectId, mutation, timer, isEditing,
                 config>>
  /\ UNCHANGED <<serverVars, editorVars, runVars>>

\* POST /api/projects/:id/save with a pixelationResult
SaveProject(by, pixelationResult) ==
  /\ project # NoProject
  /\ project' = [project EXCEPT
                   !.pixelationResult = StoredColumn(@, pixelationResult),
                   !.status = "completed"]
  /\ log' = Written(by, pixelationResult)
  /\ UNCHANGED <<info, pixelatedData, gridDims>>

\* Save to App of the results view: saveToAppMutation posts editedResults
SaveToApp ==
  /\ ResultsShown
  /\ ~isEditing
  /\ SaveProject("session", results)
  /\ UNCHANGED <<imageFile, inflight, request, response, otherRequests>>
  /\ UNCHANGED <<editorVars, sessionVars>>

\* results another session holds of the project and saves: an edited copy
OtherPayloads ==
  {PixelationResult([width |-> boardSize, height |-> boardSize,
                     data |-> RasterData(boardSize, boardSize, 0, 0, 2)],
                    [gridCols |-> 1, gridRows |-> 1])}

\* Save to App in another session
OtherSave(pixelationResult) ==
  /\ otherRequests < MaxOtherRequests
  /\ otherRequests' = otherRequests + 1
  /\ SaveProject("other", pixelationResult)
  /\ UNCHANGED <<imageFile, inflight, request, response>>
  /\ UNCHANGED <<editorVars, sessionVars>>

\* DELETE /api/projects/:id, from a My Projects page: the image file is
\* unlinked and the row marked
DeleteProject ==
  /\ project # NoProject
  /\ otherRequests < MaxOtherRequests
  /\ otherRequests' = otherRequests + 1
  /\ imageFile' = FALSE
  /\ project' = [project EXCEPT !.status = "deleted"]
  /\ log' = [log EXCEPT !.deleted = TRUE]
  /\ UNCHANGED <<info, pixelatedData, gridDims, inflight, request, response>>
  /\ UNCHANGED <<editorVars, sessionVars>>

\* the My Projects link: Home unmounts with everything below it; a timer
\* that fires afterwards sets state of an unmounted component
LeavePage ==
  /\ currentStep' = 1
  /\ processing' = FALSE
  /\ results' = NoResult
  /\ projectId' = 0
  /\ mutation' = "idle"
  /\ timer' = NoResult
  /\ isEditing' = FALSE
  /\ UnmountEditor
  /\ log' = IF isEditing THEN EditingEnded ELSE log
  /\ config' = InitialConfig
  /\ UNCHANGED projectFile
  /\ UNCHANGED <<serverVars, imageFile, inflight, request, response, otherRequests>>

NextSession ==
  \/ handleImageUpload
  \/ \E c \in Configurations : StartPixelation(c.boardCount, c.boardLayout)
  \/ \E who \in Requesters, a \in RasterCoefs : BeginProcess(who, a)
  \/ \E who \in Requesters : FinishProcess(who)
  \/ \E who \in Requesters : FailProcess(who)
  \/ ReceiveResponse
  \/ handleProcessingComplete
  \/ EnterEditor
  \/ ExitEditor
  \/ handleSave
  \/ SaveToApp
  \/ \E pixelationResult \in OtherPayloads : OtherSave(pixelationResult)
  \/ DeleteProject
  \/ LeavePage
  \/ isEditing /\ \E pos \in CanvasPoints : MouseDown(0, FALSE, pos)
  \/ isEditing /\ MouseUp
  \/ isEditing /\ Undo
  \/ isEditing /\ Redo

SpecSession == InitServer /\ [][NextSession]_vars

(***************************************************************************)
(* Statements about the pipeline, on the state a run leaves.                *)
(***************************************************************************)
\* a run of the process endpoint has completed on the stored project
RunCompleted == project # NoProject /\ project.status = "completed"

PaletteIndexes == 1..Len(BRICK_COLORS)

\* index of the palette entry with that hex, 0 if there is none
PaletteIndexOf(hex) ==
  IF \E i \in PaletteIndexes : BRICK_COLORS[i].hex = hex
  THEN CHOOSE i \in PaletteIndexes : BRICK_COLORS[i].hex = hex
  ELSE 0

\* entry i is nearest to rgb, and the first of the palette that is
NearestFirst(rgb, i) ==
  /\ i \in PaletteIndexes
  /\ \A j \in PaletteIndexes :
        /\ BrickDistance(rgb, i) <= BrickDistance(rgb, j)
        /\ BrickDistance(rgb, j) = BrickDistance(rgb, i) => i <= j

\* C5: every pixel of the quantized raster is a palette entry whose Lab
\* distance to the raw pixel is at most that of every other entry, and among
\* the entries at that minimal distance it is the one of smallest index
C5_ClosestEntryFirstOnTies ==
  RunCompleted =>
    \A y \in 0..(info.height - 1), x \in 0..(info.width - 1) :
      NearestFirst(info.data[y][x], PaletteIndexOf(pixelatedData[y][x]))

\* C5 reached: a run has matched a pixel that is equally far from the first
\* two palette entries, and wrote the first
C5_TieMatched ==
  /\ RunCompleted
  /\ \E y \in 0..(info.height - 1), x \in 0..(info.width - 1) :
        /\ BrickDistance(info.data[y][x], 1) = BrickDistance(info.data[y][x], 2)
        /\ pixelatedData[y][x] = BRICK_COLORS[1].hex

RECURSIVE SumCounts(_, _)
\* the sum of the counts of colorMap's entries from the i-th on
SumCounts(colorMap, i) ==
  IF i > Len(colorMap) THEN 0 ELSE colorMap[i].count + SumCounts(colorMap, i + 1)

\* C6: after a successful run the counts of colorMap add up to width*height
\* of the quantized raster, totalTiles is gridCols*gridRows*boardSize*boardSize,
\* and the two numbers are equal
C6_CountsSumToTotalTiles ==
  RunCompleted =>
    LET result == project.pixelationResult
        cells == Rows(pixelatedData) * Cols(pixelatedData)
    IN  /\ SumCounts(result.colorMap, 1) = cells
        /\ result.totalTiles = gridDims.gridCols * gridDims.gridRows * boardSize * boardSize
        /\ cells = result.totalTiles

\* C6 reached: a run on a grid of several boards whose raster holds several
\* colours, one of them more than once
C6_SeveralColoursCounted ==
  /\ RunCompleted
  /\ gridDims.gridCols * gridDims.gridRows > 1
  /\ Len(project.pixelationResult.colorMap) > 1
  /\ \E i \in 1..Len(project.pixelationResult.colorMap) :
        project.pixelationResult.colorMap[i].count > 1

\* C7: the cell (x, y) of the board at (row, col) is the quantized raster at
\* (row*boardSize + y, col*boardSize + x) where that lies within the raster,
\* and the default white "#FFFFFF" where it lies outside
C7_BoardsReassembleRaster ==
  RunCompleted =>
    \A k \in 1..Len(project.pixelationResult.boards) :
      LET board == project.pixelationResult.boards[k]
      IN  \A y \in 0..(boardSize - 1), x \in 0..(boardSize - 1) :
            LET globalY == board.position.row * boardSize + y
                globalX == board.position.col * boardSize + x
            IN  IF globalY < info.height /\ globalX < info.width
                THEN board.pixels[y][x] = pixelatedData[globalY][globalX]
                ELSE board.pixels[y][x] = "#FFFFFF"

\* C7 reached: a run on a 2x2 grid whose raster is narrower and lower than the
\* grid, not uniform, with a cell of the last board outside the raster
C7_RasterSmallerThanGrid ==
  /\ RunCompleted
  /\ gridDims = [gridCols |-> 2, gridRows |-> 2]
  /\ info.width > boardSize /\ info.width < 2 * boardSize
  /\ info.height > boardSize /\ info.height < 2 * boardSize
  /\ pixelatedData[0][0] # pixelatedData[1][0]
  /\ project.pixelationResult.boards[4].pixels[boardSize - 1][boardSize - 1] = "#FFFFFF"
  /\ project.pixelationResult.boards[4].pixels[0][0] = pixelatedData[boardSize][boardSize]

\* C8: every board's id is the letter of its column followed by its row number
\* plus one; a 2x2 grid yields A1, B1, A2, B2 in output order at (0,0), (0,1),
\* (1,0), (1,1); the ids of one result are pairwise distinct
C8_BoardIdColumnLetterRowNumber ==
  RunCompleted =>
    LET bs == project.pixelationResult.boards
    IN  /\ \A k \in 1..Len(bs) :
              bs[k].id = CapitalLetters[bs[k].position.col + 1]
                           \o ToString(bs[k].position.row + 1)
        /\ \A k \in 1..Len(bs), m \in 1..Len(bs) : k # m => bs[k].id # bs[m].id
        /\ gridDims = [gridCols |-> 2, gridRows |-> 2] =>
              /\ <<bs[1].id, bs[2].id, bs[3].id, bs[4].id>> = <<"A1", "B1", "A2", "B2">>
              /\ <<bs[1].position, bs[2].position, bs[3].position, bs[4].position>>
                   = <<[row |-> 0, col |-> 0], [row |-> 0, col |-> 1],
                       [row |-> 1, col |-> 0], [row |-> 1, col |-> 1]>>

\* C8 reached: a run on a grid with more columns than rows, whose last board
\* is D2
C8_WideGridLabelled ==
  /\ RunCompleted
  /\ gridDims = [gridCols |-> 4, gridRows |-> 2]
  /\ project.pixelationResult.boards[8].id = "D2"
  /\ project.pixelationResult.boards[5].id = "A2"

\* the grid the layout presets are said to give, else ceil(sqrt(boardCount))
PresetGrid(boardLayout, boardCount) ==
  CASE boardLayout = "1x1" -> [gridCols |-> 1, gridRows |-> 1]
    [] boardLayout = "2x2" -> [gridCols |-> 2, gridRows |-> 2]
    [] boardLayout = "3x2" -> [gridCols |-> 3, gridRows |-> 2]
    [] boardLayout = "3x3" -> [gridCols |-> 3, gridRows |-> 3]
    [] boardLayout = "4x2" -> [gridCols |-> 4, gridRows |-> 2]
    [] OTHER -> [gridCols |-> CeilSqrt(boardCount), gridRows |-> CeilSqrt(boardCount)]

\* C9: the grid a run resolves, and the grid the overlay draws, is the preset's
\* (cols, rows) for 1x1, 2x2, 3x2, 3x3, 4x2 whatever the boardCount, and
\* ceil(sqrt(boardCount)) squared for every other layout
C9_GridResolvedFromLayout ==
  RunCompleted =>
    /\ gridDims = PresetGrid(project.boardLayout, project.boardCount)
    /\ drawGridOverlay(project.boardLayout, project.boardCount)
         = PresetGrid(project.boardLayout, project.boardCount)

\* C9 failing: a run on a project of layout 1x1 and boardCount 4 resolved a
\* 2x2 grid
C9_OneByOneResolvedByCount ==
  /\ RunCompleted
  /\ project.boardLayout = "1x1"
  /\ project.boardCount = 4
  /\ gridDims = [gridCols |-> 2, gridRows |-> 2]
  /\ Len(project.pixelationResult.boards) = 4

(***************************************************************************)
(* Statements about the editor.  hist.pure says that the session so far    *)
(* consists of paint gestures on the main canvas, each ended by its own    *)
(* pointer-up or leave, and of undo and redo between gestures.             *)
(***************************************************************************)
\* the two changes are of the same cell
SameCell(c1, c2) == c1.boardId = c2.boardId /\ c1.x = c2.x /\ c1.y = c2.y

\* C1: in a session of committed paint batches and undo/redo between them,
\* once every batch is undone each cell has the colour it had before the first
\* batch, and once every batch is redone each cell has the colour it had
\* after the last batch
C1_UndoRedoRoundTrip ==
  (hist.pure /\ ~isPainting) =>
    /\ undoStack = <<>> => boards = InitialBoards
    /\ redoStack = <<>> => boards = hist.post

\* C1 failing: a session of that kind has undone its only batch, and a cell
\* differs from its colour before the batch
C1_UndoneButDifferent ==
  /\ hist.pure /\ ~isPainting
  /\ undoStack = <<>>
  /\ Len(redoStack) = 1
  /\ boards # InitialBoards

\* C2: every step that commits a non-empty batch appends exactly that batch to
\* the undo stack as it was, and leaves the redo stack empty
C2_CommitPushesOneBatch ==
  [][hist'.committed # <<>> =>
       /\ undoStack' = Append(undoStack, hist'.committed)
       /\ redoStack' = <<>>]_vars

\* C2 failing: a drag in the expanded view has applied two changes, and the
\* undo stack is only one entry longer than at pointer-down
C2_CommitReplacedTop ==
  /\ expIsDragging
  /\ hist.committed # <<>>
  /\ hist.gestureChanges = 2
  /\ Len(undoStack) = hist.undoLenAtDown + 1

\* C3: when a gesture that changed cells ends, on the main canvas or in the
\* expanded view, the undo stack holds one entry more than at pointer-down,
\* undoing that entry gives the boards of pointer-down, and redoing it gives
\* the boards of the gesture's end again
C3_GestureIsOneUndoEntry ==
  hist.afterGesture # "none" =>
    /\ Len(undoStack) = hist.undoLenAtDown + 1
    /\ ApplyOld(boards, undoStack[Len(undoStack)], 1) = hist.gestureStart
    /\ ApplyNew(ApplyOld(boards, undoStack[Len(undoStack)], 1),
                undoStack[Len(undoStack)], 1) = boards

\* C3 failing: a drag in the expanded view that changed two cells has ended
\* with two entries more on the undo stack, and undoing the top one does not
\* give the boards of pointer-down
C3_ExpandedGestureTwoEntries ==
  /\ hist.afterGesture = "expanded"
  /\ hist.gestureChanges = 2
  /\ Len(undoStack) = hist.undoLenAtDown + 2
  /\ ApplyOld(boards, undoStack[Len(undoStack)], 1) # hist.gestureStart

\* C4: during a gesture the batch holds at most one change per cell, and the
\* oldColor of each change is the colour of its cell at the gesture's start,
\* on the main canvas and in the expanded view
C4_OneChangePerCell ==
  /\ (hist.pure /\ isPainting) =>
        /\ \A i \in 1..Len(paintBatch), j \in 1..Len(paintBatch) :
              i # j => ~SameCell(paintBatch[i], paintBatch[j])
        /\ \A i \in 1..Len(paintBatch) :
              paintBatch[i].oldColor
                = PixelAt(hist.gestureStart, paintBatch[i].boardId,
                          paintBatch[i].x, paintBatch[i].y)
  /\ expIsDragging =>
        /\ \A i \in 1..Len(expPaintBatch), j \in 1..Len(expPaintBatch) :
              i # j => ~SameCell(expPaintBatch[i], expPaintBatch[j])
        /\ \A i \in 1..Len(expPaintBatch) :
              expPaintBatch[i].oldColor
                = PixelAt(hist.gestureStart, expPaintBatch[i].boardId,
                          expPaintBatch[i].x, expPaintBatch[i].y)

\* C4 failing: the batch of a gesture on the main canvas holds two changes of
\* one cell, the second with the first one's colour as its oldColor
C4_CellRecordedTwice ==
  /\ hist.pure /\ isPainting
  /\ Len(paintBatch) = 2
  /\ SameCell(paintBatch[1], paintBatch[2])
  /\ paintBatch[2].oldColor = paintBatch[1].newColor

\* C10: the painting flag and the panning flag are never both set
C10_PaintingExcludesPanning == ~(isPainting /\ isDragging)

\* C10 failing: both flags are set, and the move that follows pans
C10_PaintingWhilePanning ==
  /\ isPainting
  /\ isDragging
  /\ ~showExpandedEditor

RECURSIVE UndoAll(_, _)
\* the boards after undoing every batch of the stack, the top one first
UndoAll(bs, stack) ==
  IF stack = <<>> THEN bs
  ELSE UndoAll(ApplyOld(bs, stack[Len(stack)], 1), SubSeq(stack, 1, Len(stack) - 1))

\* the entries pushed on the undo stack since the last pointer-down
EntriesOfGesture == SubSeq(undoStack, hist.undoLenAtDown + 1, Len(undoStack))

\* C17: during and at the end of a drag in the expanded view, the undo stack
\* holds one entry for every cell change the drag has made, on top of the
\* stack of pointer-down, and undoing these entries gives the boards of
\* pointer-down
C17_ExpandedChangesKept ==
  (expIsDragging \/ hist.afterGesture = "expanded") =>
    /\ Len(undoStack) = hist.undoLenAtDown + hist.gestureChanges
    /\ UndoAll(boards, EntriesOfGesture) = hist.gestureStart

\* C17 failing: a drag in the expanded view that started on an empty undo
\* stack has changed two cells, the stack holds one entry, and undoing it
\* leaves a cell with the colour the drag gave it
C17_EarlierEntryDropped ==
  /\ expIsDragging
  /\ hist.undoLenAtDown = 0
  /\ hist.gestureChanges = 2
  /\ Len(undoStack) = 1
  /\ UndoAll(boards, undoStack) # hist.gestureStart

\* the last step was a paint pointer-down that resolved to no board
DownOutside(h) == h.event.kind = "down" /\ h.event.hit = NoHit

\* the last step was a paint pointer-down on a cell of the main canvas
DownOnCell(h) ==
  h.event.kind = "down" /\ h.event.where = "main" /\ h.event.hit # NoHit

\* C18: a paint pointer-down that resolves to no board, on the main canvas or
\* in the expanded view, changes neither the painting flags, nor the batches,
\* nor the boards, nor the undo and redo stacks
C18_DownOutsideChangesNothing ==
  [][DownOutside(hist') =>
       UNCHANGED <<isPainting, paintBatch, expIsDragging, expPaintBatch, boards,
                   undoStack, redoStack>>]_vars

\* C18 failing: after a paint pointer-down of the main canvas that resolved
\* to no board, the painting flag is set
C18_PaintingAfterDownOutside ==
  /\ DownOutside(hist)
  /\ hist.event.where = "main"
  /\ isPainting
  /\ paintBatch = <<>>

\* C19: a paint pointer-down on a cell of the main canvas sets the painting
\* flag; if the cell's colour differs from the selected one the cell takes
\* the selected colour and the batch is that one change, otherwise the boards
\* stay as they are and the batch is empty
C19_DownOnCellStartsBatch ==
  [][DownOnCell(hist') =>
       LET hit == hist'.event.hit
           old == PixelAt(boards, hit.boardId, hit.x, hit.y)
       IN  /\ isPainting'
           /\ IF old # selectedColor
              THEN /\ boards' = SetPixel(boards, hit.boardId, hit.x, hit.y, selectedColor)
                   /\ paintBatch' = <<[boardId |-> hit.boardId, x |-> hit.x, y |-> hit.y,
                                       oldColor |-> old, newColor |-> selectedColor]>>
              ELSE /\ boards' = boards
                   /\ paintBatch' = <<>>]_vars

\* C19 reached: a pointer-down on a cell of another colour has painted it,
\* while a batch of an earlier gesture is on the undo stack
C19_DownPaintedCell ==
  /\ DownOnCell(hist)
  /\ isPainting
  /\ Len(paintBatch) = 1
  /\ Len(undoStack) = 1

\* C20: every step that ends a paint gesture of the main canvas leaves the
\* painting and panning flags clear and the batch empty, and if the batch was
\* empty it leaves the undo and the redo stack as they were
C20_GestureEndReturnsToIdle ==
  [][(isPainting /\ ~isPainting') =>
       /\ paintBatch' = <<>>
       /\ ~isDragging'
       /\ paintBatch = <<>> => UNCHANGED <<undoStack, redoStack>>]_vars

\* C20 reached: a gesture with an empty batch has ended while the redo stack
\* held a batch
C20_EmptyGestureKeptRedo ==
  /\ hist.event.kind = "emptyEnd"
  /\ ~isPainting
  /\ paintBatch = <<>>
  /\ redoStack # <<>>

(***************************************************************************)
(* Statements about the session and the stored project.                    *)
(***************************************************************************)
\* the step ends the run of that requester
RunEnds(who) == inflight[who] # NoRun /\ inflight'[who] = NoRun

\* a process request of the session is on its way or being handled
SessionRunInProgress == request \/ inflight["session"] # NoRun

\* C11: a run of the process endpoint that does not complete sets the status
\* to 'failed', changes nothing else of the stored project, and answers the
\* session with an error; after the error answer the session's processing
\* view stays up with no result, and no request, run, answer or hand-over of
\* the session is pending or made
C11_FailedRunStoresNothing ==
  /\ [][\A who \in Requesters :
          (RunEnds(who) /\ project'.status # "completed") =>
             /\ project' = [project EXCEPT !.status = "failed"]
             /\ UNCHANGED <<info, pixelatedData, gridDims>>
             /\ who = "session" => response' = [state |-> "error"]]_vars
  /\ [](mutation = "error" =>
          /\ processing /\ results = NoResult /\ timer = NoResult
          /\ ~SessionRunInProgress /\ response = NoResponse)
  /\ [][mutation = "error" => ~request' /\ inflight'["session"] = NoRun]_vars

\* C11 reached: the session's run has failed and the session was told, while
\* the result another session's run stored earlier is still stored
C11_SessionRunFailed ==
  /\ mutation = "error"
  /\ project.status = "failed"
  /\ project.pixelationResult # NoResult
  /\ log.by = "other"

\* C12: while the session is processing or a run of its own is in progress,
\* it has no result and no editor is mounted; the result arrives in one step
\* that takes the processing view down, after the run has ended, and is the
\* result that run answered
C12_NoEditingDuringRun ==
  /\ []((processing \/ SessionRunInProgress) =>
          /\ ~isEditing
          /\ boards = <<>>
          /\ results = NoResult)
  /\ [][(results = NoResult /\ results' # NoResult) =>
          /\ processing /\ ~processing'
          /\ ~SessionRunInProgress
          /\ mutation = "success"
          /\ results' = timer]_vars

\* C12 reached: the editor of the session is painting on the result of its
\* run while a run of another session on the same project is in progress
C12_PaintingAfterRun ==
  /\ isEditing
  /\ isPainting
  /\ paintBatch # <<>>
  /\ log.by = "session"
  /\ inflight["other"] # NoRun

\* C13: once the project has been written, its stored pixelationResult is
\* the payload of the write applied last
C13_LastWriteWins ==
  log.by # "none" => project.pixelationResult = log.payload

\* C13 reached: the session wrote after another session had written a
\* different payload, and the session's payload is what is stored
C13_SecondWriterWon ==
  /\ log.by = "session"
  /\ log.prevBy = "other"
  /\ log.payload # log.prevPayload
  /\ project.pixelationResult = log.payload

\* fields of a pixelationResult
ResultFields == {"colorMap", "boards", "totalTiles"}

Statuses == {"processing", "completed", "failed"}

\* C15: the status of the stored project is one of 'processing', 'completed'
\* and 'failed' at all times, and 'processing' when the project is created
C15_StatusOneOfThree ==
  /\ [](project # NoProject => project.status \in Statuses)
  /\ [][(project = NoProject /\ project' # NoProject) =>
          project'.status = "processing"]_vars

\* C15 failing: the stored project has the status 'deleted'
C15_StatusDeleted ==
  /\ project # NoProject
  /\ project.status = "deleted"
  /\ log.deleted

\* the project passes the filter of the My Projects page: completed, with a
\* result (colorData is set only together with pixelationResult)
ListedAsCompleted ==
  /\ project # NoProject
  /\ project.status = "completed"
  /\ project.pixelationResult # NoResult

\* C16: once a DELETE of the project has succeeded, the project is not among
\* the completed projects of the My Projects page again
C16_DeletedStaysGone == log.deleted => ~ListedAsCompleted

\* C16 failing: after a DELETE the session's Save to App has stored its
\* result, and the project is listed as completed
C16_DeletedListedAgain ==
  /\ log.deleted
  /\ ListedAsCompleted
  /\ log.by = "session"
  /\ ResultsShown

(***************************************************************************)
(* BoardConfiguration: the steppers and the preset dropdown, which set     *)
(* Home's boardCount, boardLayout, boardRows and boardCols, and the start  *)
(* of a run with them.                                                     *)
(***************************************************************************)
\* the largest number of rows and of columns the model steps to; the
\* component stops at 10
MaxGridSide == 3

\* `${cols}x${rows}`
LayoutName(cols, rows) == ToString(cols) \o "x" \o ToString(rows)

\* BoardConfiguration is rendered: an image is uploaded, no run, no results
ConfigurationOpen == ConfigurationShown /\ currentStep = 2

\* a handler of BoardConfiguration that sets Home's configuration state
Configure(newConfig) ==
  /\ ConfigurationOpen
  /\ config' = newConfig
  /\ UNCHANGED <<currentStep, processing, results, projectId, mutation, timer, isEditing,
                 projectFile>>
  /\ UNCHANGED <<serverVars, editorVars, runVars>>

incrementRows ==
  /\ config.boardRows < MaxGridSide
  /\ IF config.boardRows < 10
     THEN LET newRows == config.boardRows + 1
          IN  Configure([boardRows |-> newRows,
                         boardCols |-> config.boardCols,
                         boardCount |-> newRows * config.boardCols,
                         boardLayout |-> LayoutName(config.boardCols, newRows)])
     ELSE Configure(config)

decrementRows ==
  IF config.boardRows > 1
  THEN LET newRows == config.boardRows - 1
       IN  Configure([boardRows |-> newRows,
                      boardCols |-> config.boardCols,
                      boardCount |-> newRows * config.boardCols,
                      boardLayout |-> LayoutName(config.boardCols, newRows)])
  ELSE Configure(config)

incrementCols ==
  /\ config.boardCols < MaxGridSide
  /\ IF config.boardCols < 10
     THEN LET newCols == config.boardCols + 1
          IN  Configure([boardRows |-> config.boardRows,
                         boardCols |-> newCols,
                         boardCount |-> config.boardRows * newCols,
                         boardLayout |-> LayoutName(newCols, config.boardRows)])
     ELSE Configure(config)

decrementCols ==
  IF config.boardCols > 1
  THEN LET newCols == config.boardCols - 1
       IN  Configure([boardRows |-> config.boardRows,
                      boardCols |-> newCols,
                      boardCount |-> config.boardRows * newCols,
                      boardLayout |-> LayoutName(newCols, config.boardRows)])
  ELSE Configure(config)

\* Math.ceil(count / sqrt)
CeilDiv(n, d) == (n + d - 1) \div d

\* updateLayoutForCount: layout, rows and columns for a board count
updateLayoutForCount(count) ==
  CASE count = 1 -> [boardLayout |-> "1x1", boardRows |-> 1, boardCols |-> 1]
    [] count = 4 -> [boardLayout |-> "2x2", boardRows |-> 2, boardCols |-> 2]
    [] count = 6 -> [boardLayout |-> "3x2", boardRows |-> 2, boardCols |-> 3]
    [] count = 8 -> [boardLayout |-> "4x2", boardRows |-> 2, boardCols |-> 4]
    [] count = 9 -> [boardLayout |-> "3x3", boardRows |-> 3, boardCols |-> 3]
    [] OTHER -> LET sqrt == CeilSqrt(count)
                    rows == CeilDiv(count, sqrt)
                IN  [boardLayout |-> LayoutName(sqrt, rows),
                     boardRows |-> rows, boardCols |-> sqrt]

\* setBoardCount(newCount); updateLayoutForCount(newCount)
ConfiguredForCount(newCount) ==
  [boardCount |-> newCount,
   boardLayout |-> updateLayoutForCount(newCount).boardLayout,
   boardRows |-> updateLayoutForCount(newCount).boardRows,
   boardCols |-> updateLayoutForCount(newCount).boardCols]

incrementBoards ==
  /\ config.boardCount < MaxGridSide * MaxGridSide
  /\ IF config.boardCount < 16
     THEN Configure(ConfiguredForCount(config.boardCount + 1))
     ELSE Configure(config)

decrementBoards ==
  IF config.boardCount > 1
  THEN Configure(ConfiguredForCount(config.boardCount - 1))
  ELSE Configure(config)

\* the values of the preset dropdown
LayoutValues == {"1x1", "2x2", "3x2", "3x3", "4x2", "custom"}

handleLayoutChange(value) ==
  CASE value = "custom" -> Configure(config)
    [] value = "1x1" ->
         Configure([boardLayout |-> value, boardCount |-> 1, boardRows |-> 1, boardCols |-> 1])
    [] value = "2x2" ->
         Configure([boardLayout |-> value, boardCount |-> 4, boardRows |-> 2, boardCols |-> 2])
    [] value = "3x2" ->
         Configure([boardLayout |-> value, boardCount |-> 6, boardRows |-> 2, boardCols |-> 3])
    [] value = "4x2" ->
         Configure([boardLayout |-> value, boardCount |-> 8, boardRows |-> 2, boardCols |-> 4])
    [] value = "3x3" ->
         Configure([boardLayout |-> value, boardCount |-> 9, boardRows |-> 3, boardCols |-> 3])
    [] OTHER -> Configure([config EXCEPT !.boardLayout = value])

\* handleStartPixelation with createProjectMutation: the upload endpoint
\* creates the project from boardCount and boardLayout
StartConfigured == StartPixelation(config.boardCount, config.boardLayout)

NextConfig ==
  \/ handleImageUpload
  \/ incrementRows
  \/ decrementRows
  \/ incrementCols
  \/ decrementCols
  \/ incrementBoards
  \/ decrementBoards
  \/ \E value \in LayoutValues : handleLayoutChange(value)
  \/ StartConfigured
  \/ \E a \in RasterCoefs, b \in RasterCoefs, c \in RasterCoefs : ProcessImage(a, b, c)

SpecConfig == InitServer /\ [][NextConfig]_vars

(***************************************************************************)
(* Statements about what a handler leaves, in every state it can run in.   *)
(***************************************************************************)
\* C21: where the undo stack is empty an undo, and where the redo stack is
\* empty a redo, leaves boards, both stacks and the batch of the gesture in
\* progress as they are and calls no save callback
C21_EmptyUndoRedoIsNoop ==
  /\ undoStack = <<>> =>
       /\ UndoResult.boards = boards
       /\ UndoResult.undoStack = undoStack
       /\ UndoResult.redoStack = redoStack
       /\ UndoResult.paintBatch = paintBatch
       /\ ~UndoResult.saved
  /\ redoStack = <<>> =>
       /\ RedoResult.boards = boards
       /\ RedoResult.undoStack = undoStack
       /\ RedoResult.redoStack = redoStack
       /\ RedoResult.paintBatch = paintBatch
       /\ ~RedoResult.saved

\* C21 reached: the undo stack is empty in the middle of a gesture that has
\* painted a cell, with a batch on the redo stack
C21_EmptyUndoDuringGesture ==
  /\ undoStack = <<>>
  /\ redoStack # <<>>
  /\ isPainting
  /\ paintBatch # <<>>
  /\ ~showExpandedEditor

\* C22: where the undo stack is not empty an undo moves its top batch to the
\* top of the redo stack and leaves the batches below on both stacks in
\* place; a redo does the same from the redo to the undo stack; neither makes
\* both stacks longer
C22_UndoRedoMoveTopBatch ==
  /\ undoStack # <<>> =>
       /\ UndoResult.redoStack = Append(redoStack, undoStack[Len(undoStack)])
       /\ UndoResult.undoStack \o <<undoStack[Len(undoStack)]>> = undoStack
       /\ Len(UndoResult.undoStack) + Len(UndoResult.redoStack)
            = Len(undoStack) + Len(redoStack)
  /\ redoStack # <<>> =>
       /\ RedoResult.undoStack = Append(undoStack, redoStack[Len(redoStack)])
       /\ RedoResult.redoStack \o <<redoStack[Len(redoStack)]>> = redoStack
       /\ Len(RedoResult.undoStack) + Len(RedoResult.redoStack)
            = Len(undoStack) + Len(redoStack)

\* C22 reached: two different batches are on the undo stack after the upper
\* one was undone and redone
C22_RedoneOntoOlderBatch ==
  /\ Len(undoStack) = 2
  /\ undoStack[1] # undoStack[2]
  /\ redoStack = <<>>
  /\ hist.pure /\ ~isPainting
  /\ hist.afterGesture = "none"
  /\ hist.post = boards

\* C23: while the main editor is not painting, a pointer move over any
\* canvas position leaves boards, the batch and both stacks as they are;
\* while the dialog is not dragging, a pointer move over any position of its
\* canvas leaves boards, its batch and both stacks as they are, and no
\* document listener of an earlier drag is left to handle it
C23_IdleMoveChangesNothing ==
  /\ (~showExpandedEditor /\ ~isPainting) =>
       \A pos \in CanvasPoints :
         /\ MoveResult(pos).boards = boards
         /\ MoveResult(pos).paintBatch = paintBatch
         /\ MoveResult(pos).undoStack = undoStack
         /\ MoveResult(pos).redoStack = redoStack
         /\ ~MoveResult(pos).saved
  /\ (showExpandedEditor /\ ~expIsDragging) =>
       /\ listener = NoListener
       /\ \A pos \in ExpandedPoints :
            /\ ExpandedMoveResult(pos).boards = boards
            /\ ExpandedMoveResult(pos).paintBatch = expPaintBatch
            /\ ExpandedMoveResult(pos).undoStack = undoStack
            /\ ExpandedMoveResult(pos).redoStack = redoStack
            /\ ~ExpandedMoveResult(pos).saved

\* C23 reached: the main editor is idle after a gesture that painted and
\* was committed, with a colour selected that no cell under the pointer holds
C23_IdleAfterPaintedGesture ==
  /\ ~showExpandedEditor
  /\ ~isPainting /\ ~isDragging
  /\ hist.afterGesture = "main"
  /\ hist.committed # <<>>
  /\ \E pos \in CanvasPoints :
       /\ HitTest(pos) # NoHit
       /\ PaintChangesAlways(HitTest(pos)) # <<>>

\* the cell a change or a hit names
CellOf(c) == [boardId |-> c.boardId, x |-> c.x, y |-> c.y]

CellsOfBatch(batch) == {CellOf(batch[i]) : i \in 1..Len(batch)}

\* after has the boards of before, with their ids, positions and sizes, and
\* differs from it in cells of the given set only
LocalEdit(before, after, cells) ==
  /\ Len(after) = Len(before)
  /\ \A i \in 1..Len(before) :
       /\ after[i].id = before[i].id
       /\ after[i].position = before[i].position
       /\ DOMAIN after[i] = DOMAIN before[i]
       /\ DOMAIN after[i].pixels = DOMAIN before[i].pixels
       /\ \A y \in DOMAIN before[i].pixels :
            /\ DOMAIN after[i].pixels[y] = DOMAIN before[i].pixels[y]
            /\ \A x \in DOMAIN before[i].pixels[y] :
                 after[i].pixels[y][x] # before[i].pixels[y][x] =>
                   [boardId |-> before[i].id, x |-> x, y |-> y] \in cells

\* C30: in every state, a paint step of the main editor at any canvas
\* position (pointer-down or pointer-move) changes at most the cell the
\* position resolves to, a paint step of the dialog at most the cell it
\* resolves to, an undo only cells of the top batch of the undo stack and a
\* redo only cells of the top batch of the redo stack; the boards, their ids
\* and positions stay
C30_EditsAreLocal ==
  /\ \A pos \in CanvasPoints :
       LET hit == HitTest(pos)
           painted == ApplyNew(boards, PaintChanges(hit), 1)
       IN  /\ LocalEdit(boards, painted, IF hit = NoHit THEN {} ELSE {CellOf(hit)})
           /\ isPainting /\ ~isDragging => MoveResult(pos).boards = painted
  /\ \A pos \in ExpandedPoints, color \in EditorColors :
       LET pixelInfo == getPixelFromMouseEvent(pos)
       IN  pixelInfo # NoHit =>
             LocalEdit(boards,
                       ExpandedPaintResult(pixelInfo, color, <<>>, undoStack, <<>>).boards,
                       {CellOf(pixelInfo)})
  /\ LocalEdit(boards, UndoResult.boards,
               IF undoStack = <<>> THEN {} ELSE CellsOfBatch(undoStack[Len(undoStack)]))
  /\ LocalEdit(boards, RedoResult.boards,
               IF redoStack = <<>> THEN {} ELSE CellsOfBatch(redoStack[Len(redoStack)]))

\* C30 reached: an undo has just reverted a batch of two cells, and the
\* boards differ from the ones before it in exactly those two cells
C30_UndoRevertedTwoCells ==
  /\ redoStack # <<>>
  /\ Cardinality(CellsOfBatch(redoStack[Len(redoStack)])) = 2
  /\ RedoResult.boards # boards
  /\ \A c \in CellsOfBatch(redoStack[Len(redoStack)]) :
       PixelAt(boards, c.boardId, c.x, c.y) # PixelAt(RedoResult.boards, c.boardId, c.x, c.y)

\* the number of board cells that hold the colour
CellsOfColor(bs, hex) ==
  LET rows == UNION {{<<i, y>> : y \in DOMAIN bs[i].pixels} : i \in 1..Len(bs)}
      cells == UNION {{<<r[1], r[2], x>> : x \in DOMAIN bs[r[1]].pixels[r[2]]} : r \in rows}
  IN  Cardinality({c \in cells : bs[c[1]].pixels[c[2]][c[3]] = hex})

\* every count listed in colorMap is the number of cells of that colour
CountsMatchBoards(result) ==
  \A k \in 1..Len(result.colorMap) :
    result.colorMap[k].count = CellsOfColor(result.boards, result.colorMap[k].hex)

\* C27: the result handed to onSaveChanges lists, for each colour of its
\* colorMap, the number of cells that hold it: the result handleMouseUp
\* handed over when it committed a batch, and the results an undo and a redo
\* hand over from any state
C27_SavedCountsMatchBoards ==
  /\ hist.committed # <<>> => CountsMatchBoards(SharedResult)
  /\ UndoResult.saved => CountsMatchBoards([results EXCEPT !.boards = UndoResult.boards])
  /\ RedoResult.saved => CountsMatchBoards([results EXCEPT !.boards = RedoResult.boards])

\* C27 reached: the first batch of an editing session was committed, the
\* result of the run listed the right counts, and the result handed to the
\* save callback does not
C27_SavedCountsStale ==
  /\ hist.committed # <<>>
  /\ Len(undoStack) = 1
  /\ CountsMatchBoards(InitialResult)
  /\ SharedResult.colorMap = InitialResult.colorMap
  /\ ~CountsMatchBoards(SharedResult)

(***************************************************************************)
(* The view of the main editor: drawing and hit test at pan offsets and    *)
(* zoom levels the editor reaches by pans and zoom steps.                  *)
(***************************************************************************)
\* zoom levels one and two steps above 1, one below, and the two limits
ViewZoomLevels ==
  {<<1, 1>>, ZoomedIn(<<1, 1>>), ZoomedIn(ZoomedIn(<<1, 1>>)),
   ZoomedOut(<<1, 1>>), <<8, 1>>, <<1, 4>>}

\* pan offsets: none, and a few pixels or a fraction of a board either way
ViewPanOffsets ==
  {[x |-> 0, y |-> 0], [x |-> 5, y |-> -16], [x |-> -24, y |-> 33]}

\* pointer coordinates relative to the canvas: cell borders of the zoom
\* levels, their neighbours, and positions in between
ViewCoordinates == {0, 3, 4, 7, 8, 10, 11, 15, 16, 23, 24, 31, 32, 35, 36, 37,
                    47, 48, 64, 71, 72, 127, 128, 144, 255, 256}

\* one axis runs over all coordinates while the other takes a few of them
ViewPoints ==
  LET few == {0, 10, 24, 37, 71}
  IN  {[x |-> cx, y |-> cy] : cx \in ViewCoordinates, cy \in few}
        \cup {[x |-> cx, y |-> cy] : cx \in few, cy \in ViewCoordinates}

\* the positions the model presses the button at
ClickPoints == {[x |-> 8, y |-> 8], [x |-> 40, y |-> 8], [x |-> 24, y |-> 36]}

\* Math.max(...numbers)
MaxOf(S) == CHOOSE m \in S : \A n \in S : n <= m

\* drawEditor: canvas.width = totalCols * 32 * scaledTileSize and likewise
\* the height; a pointer event of the canvas lies within them
InCanvas(pos) ==
  LET totalCols == MaxOf({boards[i].position.col + 1 : i \in 1..Len(boards)})
      totalRows == MaxOf({boards[i].position.row + 1 : i \in 1..Len(boards)})
  IN  /\ pos.x >= 0 /\ pos.y >= 0
      /\ pos.x * zoomLevel[2] < totalCols * boardSize * tileSize * zoomLevel[1]
      /\ pos.y * zoomLevel[2] < totalRows * boardSize * tileSize * zoomLevel[1]

\* drawEditor: after ctx.translate(panOffset) the cell (x, y) of the board is
\* the square of side scaledTileSize at boardStart + x * scaledTileSize;
\* all lengths times zoomLevel's denominator
DrawnOver(board, x, y, pos) ==
  LET scaledTileSize == tileSize * zoomLevel[1]
      pixelX == panOffset.x * zoomLevel[2]
                  + board.position.col * boardSize * scaledTileSize + x * scaledTileSize
      pixelY == panOffset.y * zoomLevel[2]
                  + board.position.row * boardSize * scaledTileSize + y * scaledTileSize
  IN  /\ InCanvas(pos)
      /\ pos.x * zoomLevel[2] >= pixelX /\ pos.x * zoomLevel[2] < pixelX + scaledTileSize
      /\ pos.y * zoomLevel[2] >= pixelY /\ pos.y * zoomLevel[2] < pixelY + scaledTileSize

\* the editor as mounted, after pans and zoom steps
InitView ==
  /\ ServerIdle
  /\ RunsIdle
  /\ HomeEditing(InitialResult)
  /\ boards = InitialBoards
  /\ selectedColor = "#000000"
  /\ zoomLevel \in ViewZoomLevels
  /\ panOffset \in ViewPanOffsets
  /\ lastPan = [x |-> 0, y |-> 0]
  /\ isDragging = FALSE
  /\ isPainting = FALSE
  /\ paintBatch = <<>>
  /\ undoStack = <<>>
  /\ redoStack = <<>>
  /\ brightness = 0
  /\ contrast = 0
  /\ saturation = 0
  /\ sharpness = 0
  /\ showExpandedEditor = FALSE
  /\ expandedSelectedColor = "#000000"
  /\ expIsDragging = FALSE
  /\ expPaintBatch = <<>>
  /\ listener = NoListener
  /\ hist = NewHistory(InitialBoards)

NextView ==
  \/ \E pos \in ClickPoints : MouseDown(0, FALSE, pos)
  \/ MouseUp

SpecView == InitView /\ [][NextView]_vars

\* C24: at every pan offset and zoom level, for every pointer position of
\* the canvas: if it lies over the drawn square of cell (x, y) of a board the
\* hit test gives that board's id with x and y, both within the board; at
\* most one board contains it; and if it lies over no drawn cell the hit
\* test gives nothing
C24_HitTestInvertsDrawing ==
  \A pos \in ViewPoints :
    InCanvas(pos) =>
      LET hit == HitTest(pos)
          over == {c \in (1..Len(boards)) \X (0..(boardSize - 1)) \X (0..(boardSize - 1)) :
                     DrawnOver(boards[c[1]], c[2], c[3], pos)}
      IN  /\ \A c \in over : hit = [boardId |-> boards[c[1]].id, x |-> c[2], y |-> c[3]]
          /\ Cardinality({i \in 1..Len(boards) : ContainsPointer(boards[i], pos)}) <= 1
          /\ over = {} => hit = NoHit
          /\ hit # NoHit => hit.x \in 0..(boardSize - 1) /\ hit.y \in 0..(boardSize - 1)

\* C24 reached: zoomed out and panned, a press on a canvas position over the
\* second cell of the second board column painted that cell, and another
\* canvas position lies over no board
C24_PaintedUnderPanAndZoom ==
  /\ zoomLevel = ZoomedOut(<<1, 1>>)
  /\ panOffset = [x |-> 5, y |-> -16]
  /\ hist.event.kind = "down"
  /\ hist.event.hit # NoHit
  /\ hist.event.hit.x = 1
  /\ paintBatch # <<>>
  /\ PixelAt(boards, hist.event.hit.boardId, 1, hist.event.hit.y) = selectedColor
  /\ \E i \in 1..Len(boards) :
       boards[i].id = hist.event.hit.boardId /\ boards[i].position.col = 1
  /\ \E pos \in ViewPoints : InCanvas(pos) /\ HitTest(pos) = NoHit

(***************************************************************************)
(* Statements about the boards and the colour map of a run.                *)
(***************************************************************************)
\* the (board, cell) places that hold the raster pixel (globalX, globalY)
PlacesOf(bs, globalX, globalY) ==
  {c \in (1..Len(bs)) \X (0..(boardSize - 1)) \X (0..(boardSize - 1)) :
     /\ bs[c[1]].position.row * boardSize + c[2] = globalY
     /\ bs[c[1]].position.col * boardSize + c[3] = globalX}

\* C25: a completed run has gridRows*gridCols boards, the board of
\* (boardRow, boardCol) at place boardRow*gridCols + boardCol of the output;
\* each board has boardSize rows of boardSize cells that hold a colour; and
\* every pixel of the quantized raster lies in exactly one cell of one board
C25_PartitionCoversRaster ==
  RunCompleted =>
    LET bs == project.pixelationResult.boards
        gridCols == gridDims.gridCols
        gridRows == gridDims.gridRows
    IN  /\ Len(bs) = gridRows * gridCols
        /\ \A boardRow \in 0..(gridRows - 1), boardCol \in 0..(gridCols - 1) :
             bs[boardRow * gridCols + boardCol + 1].position
               = [row |-> boardRow, col |-> boardCol]
        /\ \A k \in 1..Len(bs) :
             /\ DOMAIN bs[k].pixels = 0..(boardSize - 1)
             /\ \A y \in 0..(boardSize - 1) :
                  /\ DOMAIN bs[k].pixels[y] = 0..(boardSize - 1)
                  /\ \A x \in 0..(boardSize - 1) :
                       bs[k].pixels[y][x]
                         \in {BRICK_COLORS[i].hex : i \in 1..Len(BRICK_COLORS)} \cup {"#FFFFFF"}
        /\ \A globalY \in 0..(info.height - 1), globalX \in 0..(info.width - 1) :
             Cardinality(PlacesOf(bs, globalX, globalY)) = 1

\* C25 reached: a run on a grid of three columns and two rows, whose fourth
\* board is the first of the second row and holds the raster's pixel there
C25_WideGridPartitioned ==
  /\ RunCompleted
  /\ gridDims = [gridCols |-> 3, gridRows |-> 2]
  /\ Len(project.pixelationResult.boards) = 6
  /\ project.pixelationResult.boards[4].position = [row |-> 1, col |-> 0]
  /\ project.pixelationResult.boards[4].pixels[0][0] = pixelatedData[boardSize][0]
  /\ pixelatedData[boardSize][0] # pixelatedData[0][0]

\* the places of the row-major scan, y * width + x, that hold the colour
ScanPlaces(raster, hex) ==
  {k \in 0..(Rows(raster) * Cols(raster) - 1) :
     raster[k \div Cols(raster)][k % Cols(raster)] = hex}

\* the least place of a non-empty set of places
FirstPlace(S) == CHOOSE k \in S : \A m \in S : k <= m

\* C26: colorMap of a completed run has one entry for each palette colour
\* that occurs in the quantized raster and none for the others; every entry
\* is a palette entry, name and hex; its count is the number of pixels of
\* that colour; and the entries come in the order of the colours' first
\* occurrence in the row-major scan
C26_ColorMapListsOccurringColours ==
  RunCompleted =>
    LET colorMap == project.pixelationResult.colorMap
    IN  /\ \A i \in 1..Len(BRICK_COLORS) :
             LET hex == BRICK_COLORS[i].hex
                 entries == {k \in 1..Len(colorMap) : colorMap[k].hex = hex}
             IN  /\ Cardinality(entries) = IF ScanPlaces(pixelatedData, hex) = {} THEN 0 ELSE 1
                 /\ \A k \in entries :
                      colorMap[k].count = Cardinality(ScanPlaces(pixelatedData, hex))
        /\ \A k \in 1..Len(colorMap) :
             /\ \E i \in 1..Len(BRICK_COLORS) :
                  /\ BRICK_COLORS[i].hex = colorMap[k].hex
                  /\ BRICK_COLORS[i].name = colorMap[k].name
             /\ DOMAIN colorMap[k] = {"name", "hex", "count"}
        /\ \A k, m \in 1..Len(colorMap) :
             k < m => FirstPlace(ScanPlaces(pixelatedData, colorMap[k].hex))
                        < FirstPlace(ScanPlaces(pixelatedData, colorMap[m].hex))

\* C26 reached: the raster of a run holds two colours, and the one the scan
\* meets first is the rarer one and comes first in colorMap
C26_RarerColourListedFirst ==
  /\ RunCompleted
  /\ Len(project.pixelationResult.colorMap) >= 2
  /\ project.pixelationResult.colorMap[1].hex = pixelatedData[0][0]
  /\ project.pixelationResult.colorMap[1].count < project.pixelationResult.colorMap[2].count

\* C26, the example: a raster of one board that maps to one colour gives the
\* single entry of that colour with every pixel counted
C26_UniformRasterOneEntry ==
  /\ RunCompleted
  /\ gridDims = [gridCols |-> 1, gridRows |-> 1]
  /\ Len(project.pixelationResult.colorMap) = 1
  /\ project.pixelationResult.colorMap[1].count = boardSize * boardSize

(***************************************************************************)
(* Statements about the board configuration.                               *)
(***************************************************************************)
\* C28: the run started from a configuration gives boardCount boards in
\* boardCols columns and boardRows rows, and its totalTiles is the number
\* the configuration showed, boardCount times the cells of a board
C28_PipelineMatchesConfiguration ==
  (currentStep = 3 /\ RunCompleted) =>
    /\ Len(project.pixelationResult.boards) = config.boardCount
    /\ gridDims = [gridCols |-> config.boardCols, gridRows |-> config.boardRows]
    /\ project.pixelationResult.totalTiles = config.boardCount * boardSize * boardSize

\* C28 reached: two boards in two columns and one row were configured with
\* the row stepper, and the run gave four boards
C28_TwoBoardsConfiguredFourMade ==
  /\ currentStep = 3
  /\ RunCompleted
  /\ config = [boardCount |-> 2, boardLayout |-> "2x1", boardRows |-> 1, boardCols |-> 2]
  /\ Len(project.pixelationResult.boards) = 4
  /\ project.pixelationResult.totalTiles = 4 * boardSize * boardSize

\* C29: the board count of the configuration is rows times columns
C29_CountIsRowsTimesCols ==
  config.boardCount = config.boardRows * config.boardCols

\* C29 reached: three boards are configured on a grid of two rows and two
\* columns
C29_ThreeBoardsOnTwoByTwo ==
  /\ ConfigurationOpen
  /\ config.boardCount = 3
  /\ config.boardRows = 2
  /\ config.boardCols = 2

(***************************************************************************)
(* Statements about panning, zooming and the colours of the cells.         *)
(***************************************************************************)
\* a step of a pan gesture, from its pointer-down (middle button, or left
\* button with Cmd) over its moves to its pointer-up, or a zoom step
PanOrZoomStep ==
  \/ \E press \in Presses, pos \in CanvasPoints :
       /\ press.button = 1 \/ (press.button = 0 /\ press.metaKey)
       /\ MouseDown(press.button, press.metaKey, pos)
  \/ isDragging /\ \E pos \in CanvasPoints : MouseMove(pos)
  \/ isDragging /\ MouseUp
  \/ ZoomIn
  \/ ZoomOut

\* C31: a step of a pan gesture or a zoom step changes no cell, adds nothing
\* to the batch and leaves the undo stack and the redo stack as they are
C31_PanAndZoomNeverEdit ==
  [][PanOrZoomStep =>
       /\ boards' = boards
       /\ Len(paintBatch') <= Len(paintBatch)
       /\ undoStack' = undoStack
       /\ redoStack' = redoStack]_vars

\* C31 reached: a pan is in progress while a paint gesture with a recorded
\* change is unfinished and a batch is on the redo stack, so that the
\* pointer-up that ends the pan runs handleMouseUp with the painting flag set
C31_PanEndsUnfinishedPaint ==
  /\ ~showExpandedEditor
  /\ isDragging
  /\ isPainting
  /\ paintBatch # <<>>
  /\ redoStack # <<>>

(***************************************************************************)
(* Image enhancement: the sliders, Reset and Apply Enhancements.           *)
(***************************************************************************)
\* presses of Apply Enhancements followed in one editing session
MaxEnhancements == 1

\* slider positions tried (the sliders run from -100 to 100 in steps of 5)
BrightnessValues == {0, 20}
ContrastValues == {0, -85}
SaturationValues == {0, -100}
SharpnessValues == {0, 50}

HexDigitsLower == <<"0","1","2","3","4","5","6","7","8","9","a","b","c","d","e","f">>

\* Number.prototype.toString(16).padStart(2, '0'): lower-case digits
HexByteLower(n) == HexDigitsLower[(n \div 16) + 1] \o HexDigitsLower[(n % 16) + 1]

\* the template literal that ends applyEnhancements
HexLower(rgb) == "#" \o HexByteLower(rgb[1]) \o HexByteLower(rgb[2]) \o HexByteLower(rgb[3])

\* parseInt(digits, 16) of two hex digits of either case
parseInt16(digits) ==
  LET value(d) == CHOOSE n \in 0..15 : HexDigitsUpper[n + 1] = d \/ HexDigitsLower[n + 1] = d
  IN  value(SubSeq(digits, 1, 1)) * 16 + value(SubSeq(digits, 2, 2))

\* Math.max(0, Math.min(255, Math.round(num / den))), den > 0: Math.round
\* takes the nearest integer and the upper one at a tie
RoundClamp(num, den) ==
  LET rounded == (2 * num + den) \div (2 * den)
  IN  IF rounded < 0 THEN 0 ELSE IF rounded > 255 THEN 255 ELSE rounded

\* applyEnhancements(color) at the slider values b, c, s, in exact fractions:
\* brightness adds b * 2.55 = 51b/20, contrast scales the distance to 128 by
\* 259(c + 255) / (255(259 - c)), saturation scales the distance to the gray
\* value 0.299 R + 0.587 G + 0.114 B by (s + 100) / 100
EnhancedColor(color, b, c, s) ==
  LET rgb == <<parseInt16(SubSeq(color, 2, 3)), parseInt16(SubSeq(color, 4, 5)),
               parseInt16(SubSeq(color, 6, 7))>>
      bd == 20 \div Gcd(20, 51 * (IF b < 0 THEN -b ELSE b))
      bn == (51 * b) \div (20 \div bd)
      cg == Gcd(259 * (c + 255), 255 * (259 - c))
      cn == (259 * (c + 255)) \div cg
      cd == (255 * (259 - c)) \div cg
      \* after brightness and contrast: n2[i] / d2
      d2 == bd * cd
      n2 == [i \in 1..3 |-> cn * (bd * rgb[i] + bn - 128 * bd) + 128 * d2]
      gray == 299 * n2[1] + 587 * n2[2] + 114 * n2[3]      \* over 1000 * d2
      sg == Gcd(s + 100, 100)
      sn == (s + 100) \div sg
      sd == 100 \div sg
      n3 == [i \in 1..3 |-> sn * 1000 * n2[i] + (sd - sn) * gray]
      d3 == sd * 1000 * d2
  IN  HexLower([i \in 1..3 |-> RoundClamp(n3[i], d3)])

applyEnhancements(color) == EnhancedColor(color, brightness, contrast, saturation)

\* onValueChange of the four sliders
setBrightness(value) ==
  /\ ~showExpandedEditor
  /\ brightness' = value
  /\ UNCHANGED <<contrast, saturation, sharpness>>

setContrast(value) ==
  /\ ~showExpandedEditor
  /\ contrast' = value
  /\ UNCHANGED <<brightness, saturation, sharpness>>

setSaturation(value) ==
  /\ ~showExpandedEditor
  /\ saturation' = value
  /\ UNCHANGED <<brightness, contrast, sharpness>>

setSharpness(value) ==
  /\ ~showExpandedEditor
  /\ sharpness' = value
  /\ UNCHANGED <<brightness, contrast, saturation>>

\* the Reset button
resetEnhancements ==
  /\ ~showExpandedEditor
  /\ brightness' = 0
  /\ contrast' = 0
  /\ saturation' = 0
  /\ sharpness' = 0

\* a step of the enhancement panel that leaves the boards alone
SliderStep(A) ==
  /\ A
  /\ hist' = Mark(hist, InGesture)
  /\ UNCHANGED <<boards, selectedColor, zoomLevel, panOffset, lastPan, isDragging,
                 isPainting, paintBatch, undoStack, redoStack, showExpandedEditor,
                 expandedSelectedColor, expIsDragging, expPaintBatch, listener>>
  /\ UNCHANGED <<serverVars, runVars, sessionVars>>

\* the boards applyEnhancementsToResult builds and hands to setEditedResult
\* and onSaveChanges: every cell of every board through applyEnhancements
EnhancedBoards ==
  [k \in 1..Len(boards) |->
     [boards[k] EXCEPT !.pixels =
        [y \in DOMAIN boards[k].pixels |->
           [x \in DOMAIN boards[k].pixels[y] |->
              applyEnhancements(boards[k].pixels[y][x])]]]]

\* the Apply Enhancements button
applyEnhancementsToResult ==
  /\ ~showExpandedEditor
  /\ hist.nEnhancements < MaxEnhancements
  /\ boards' = EnhancedBoards
  /\ hist' = [Mark(hist, InGesture) EXCEPT !.pure = FALSE, !.nEnhancements = @ + 1]
  /\ UNCHANGED <<selectedColor, zoomLevel, panOffset, lastPan, isDragging,
                 isPainting, paintBatch, undoStack, redoStack, showExpandedEditor,
                 expandedSelectedColor, expIsDragging, expPaintBatch, listener>>
  /\ UNCHANGED <<serverVars, runVars, sessionVars, enhanceVars>>

\* the editor with its enhancement panel: paint gestures at the click points,
\* undo, redo, the sliders, Reset and Apply Enhancements
NextEnhance ==
  \/ \E pos \in ClickPoints : MouseDown(0, FALSE, pos)
  \/ MouseUp
  \/ Undo
  \/ Redo
  \/ \E value \in BrightnessValues : SliderStep(setBrightness(value))
  \/ \E value \in ContrastValues : SliderStep(setContrast(value))
  \/ \E value \in SaturationValues : SliderStep(setSaturation(value))
  \/ \E value \in SharpnessValues : SliderStep(setSharpness(value))
  \/ SliderStep(resetEnhancements)
  \/ applyEnhancementsToResult

SpecEnhance == Init /\ [][NextEnhance]_vars

\* the hex strings of the 39 palette colours and the default white
PaletteOrWhite == {BRICK_COLORS[i].hex : i \in 1..Len(BRICK_COLORS)} \cup {"#FFFFFF"}

\* the hex strings held by the cells of the boards bs
CellColors(bs) ==
  {bs[k].pixels[y][x] : k \in 1..Len(bs), y \in 0..(boardSize - 1), x \in 0..(boardSize - 1)}

\* the red, green and blue bytes a hex string spells, in either case
ColorValue(hex) ==
  <<parseInt16(SubSeq(hex, 2, 3)), parseInt16(SubSeq(hex, 4, 5)), parseInt16(SubSeq(hex, 6, 7))>>

\* C32: in every state of the editor, whatever was painted, undone, redone or
\* enhanced, every cell of every board holds the hex value of a palette
\* colour or of the default white "#FFFFFF" (in either case of the digits)
C32_CellsHoldPaletteColours ==
  \A color \in CellColors(boards) :
    \E listed \in PaletteOrWhite : ColorValue(color) = ColorValue(listed)

\* C32 failing: Apply Enhancements was pressed in a session that also
\* committed a painted batch, and a cell holds a colour that is neither in
\* the palette nor white
C32_EnhancedOffPalette ==
  /\ hist.nEnhancements > 0
  /\ undoStack # <<>>
  /\ ~isPainting
  /\ \E color \in CellColors(boards) :
       \A listed \in PaletteOrWhite : ColorValue(color) # ColorValue(listed)

\* the sliders are where Reset puts them
SlidersNeutral == brightness = 0 /\ contrast = 0 /\ saturation = 0 /\ sharpness = 0

\* C33: a press of Apply Enhancements with every slider at 0 leaves in every
\* cell of every board exactly the hex string it held before
C33_NeutralEnhancementIsIdentity ==
  [][(SlidersNeutral /\ applyEnhancementsToResult) => boards' = boards]_vars

\* C33 failing: Apply Enhancements was pressed, the sliders are at 0, and
\* every cell holds the value of a palette colour while some cell holds a
\* string that no palette entry equals
C33_PaletteValueSpelledDifferently ==
  /\ hist.nEnhancements > 0
  /\ SlidersNeutral
  /\ \A color \in CellColors(boards) :
       \E listed \in PaletteOrWhite : ColorValue(color) = ColorValue(listed)
  /\ \E color \in CellColors(boards) : color \notin PaletteOrWhite

(***************************************************************************)
(* The end of a processing run.  The server takes up the session's request *)
(* and answers it (with the result or from its catch branch), the answer   *)
(* reaches the mutation's callbacks, and the timer of onSuccess fires.     *)
(* What the user does, and what other sessions do, is left open.           *)
(***************************************************************************)
FairSession ==
  /\ WF_vars(\E a \in RasterCoefs : BeginProcess("session", a))
  /\ WF_vars(FailProcess("session") \/ FinishProcess("session"))
  /\ WF_vars(ReceiveResponse)
  /\ WF_vars(handleProcessingComplete)

\* the session from the upload to the results view, with the server, other
\* sessions' runs and deletes, and the user leaving the page
NextRun ==
  \/ handleImageUpload
  \/ \E c \in Configurations : StartPixelation(c.boardCount, c.boardLayout)
  \/ \E who \in Requesters, a \in RasterCoefs : BeginProcess(who, a)
  \/ \E who \in Requesters : FinishProcess(who)
  \/ \E who \in Requesters : FailProcess(who)
  \/ ReceiveResponse
  \/ handleProcessingComplete
  \/ DeleteProject
  \/ LeavePage

SpecRun == InitServer /\ [][NextRun]_vars /\ FairSession

\* C34: whenever the session is in the processing state and the server
\* answers its process request, the session later is out of the processing
\* state
C34_ProcessingEventuallyEnds == processing ~> ~processing

\* C34 failing: the answer of a failed run has reached onError and the
\* processing view is still up, with no request, run, answer or timer left
C34_FailedRunStillProcessing ==
  /\ processing
  /\ mutation = "error"
  /\ ~request
  /\ inflight["session"] = NoRun
  /\ response = NoResponse
  /\ timer = NoResult

====
